---- MODULE Spec2Model ----
(***************************************************************************)
(* Console session protocol of the CMaNGOS Telnet wrapper                  *)
(* (code/wrapper/TelnetWrapper.py): connection lifecycle, login handshake, *)
(* prompt synchronisation and command framing, together with the remote    *)
(* console and the byte stream between the two.                            *)
(*                                                                         *)
(* The stream is a sequence of tokens.  A token is a piece of console text *)
(* (txt) tagged with the number of the client line it answers (of); the    *)
(* tag is history only, the client code never reads it.                    *)
(***************************************************************************)
EXTENDS Integers, Sequences, FiniteSets, TLC

\* ---------------------------------------------------------------- bounds
MaxCalls == 3
MaxBroadcast == 1

Threads == {1, 2}

\* ------------------------------------------------------- wire literals
UsernamePrompt == "Username:"
PasswordPrompt == "Password:"
PromptMarker == "mangos>"
Newline == <<"\n">>
QuitLine == <<"quit \n">>
user == "admin"
pwd == "secret"
Commands == {"account onlinelist \n", "server info \n"}

VARIABLES
    tn_client,  \* "None" or "Telnet": self.tn_client
    sock,       \* TRUE iff tn_client.sock is a socket object (get_socket())
    eof,        \* tn_client.eof
    cookedq,    \* tn_client.cookedq: bytes received and not yet returned
    net,        \* tokens the remote has sent and the client has not received
    reof,       \* the remote has closed the stream (end of net)
    tx,         \* lines the client has written and the remote has not read
    rstate,     \* remote console: none, greet, user, pass, cli, mute, closed
    pc,         \* per caller: position in the method on top of stk
    stk,        \* per caller: the methods being executed, outermost first
    arg,        \* per caller: the command of the running execute_command
    meth,       \* per caller: the method of the current or last call
    eofAtCall,  \* per caller: the transport had seen end of stream at the call
    result,     \* per caller: the bytes the reply read of execute_command returned
    err,        \* per caller: the exception the last call raised, "" if none
    obj,        \* the wrapper object: constructing, ready, failed
    trace,      \* per caller: the transport operations of the current call
    ncalls,     \* calls made on the object since construction
    nbcast,     \* broadcasts the remote has emitted
    wseq,       \* lines written to the current transport
    lastRead,   \* the last token a read returned on the current transport
    cmdseq,     \* per caller: number of the command line the call wrote
    flushed,    \* a wait_cli_prompt has completed since the last command line
    closedOnce, \* close() has returned at least once
    snap,       \* per caller: the session as a first wait_cli_prompt left it,
                \* kept while a second one runs right after it
    param,      \* per caller: the integer argument of a catalogue call
    ret,        \* per caller: what a catalogue call returned
    pin,        \* the reply or arguments a catalogue method is applied to
    pout,       \* what the catalogue method returned or raised
    web         \* the web server: its configuration, the cookies of one
                \* client, the last request and the page it was answered with

svars == <<tn_client, sock, eof, cookedq, net, reof, tx, rstate, pc, stk, arg,
           meth, eofAtCall, result, err, obj, trace, ncalls, nbcast, wseq, lastRead,
           cmdseq, flushed, closedOnce, snap, param, ret>>

vars == <<svars, pin, pout, web>>

transport == <<tn_client, sock, eof, cookedq>>
wire == <<net, reof, tx, rstate, nbcast>>

NoToken == [txt |-> "", of |-> -1]
Tok(s, n) == [txt |-> s, of |-> n]

\* --------------------------------------------------------------- helpers
Has(q, match) == \E i \in 1..Len(q) : q[i].txt = match

First(q, match) ==
    CHOOSE i \in 1..Len(q) :
        q[i].txt = match /\ \A j \in 1..(i - 1) : q[j].txt # match

Last(q) == q[Len(q)]


\* ------------------------------------------------- transport operations
\* tn_client.read_until(match, timeout): every way the call can end in the
\* current state.  An empty set means the call blocks.
\*   match:   match found, data up to and including it is returned
\*   nomatch: timeout expired or end of stream, the buffered data is returned
\*   raise:   an exception is raised and nothing is consumed
read_until(match, timeout) ==
    LET all == cookedq \o net
        nc == Len(cookedq)
        Ok(k, d, c, n, e) ==
            [kind |-> k, data |-> d, cookedq |-> c, net |-> n, eof |-> e,
             exc |-> ""]
        Exc(x, e) ==
            [kind |-> "raise", data |-> <<>>, cookedq |-> cookedq,
             net |-> IF e THEN <<>> ELSE net, eof |-> e, exc |-> x]
    IN  IF Has(cookedq, match)
        THEN LET i == First(cookedq, match)
             IN  {Ok("match", SubSeq(cookedq, 1, i),
                     SubSeq(cookedq, i + 1, nc), net, eof)}
        ELSE IF ~sock THEN {Exc("ValueError", eof)}
        ELSE IF eof
        THEN IF cookedq = <<>> THEN {Exc("EOFError", eof)}
             ELSE {Ok("nomatch", cookedq, <<>>, net, eof)}
        ELSE
          (IF Has(all, match)
           THEN LET i == First(all, match)
                IN  {Ok("match", SubSeq(all, 1, i),
                        SubSeq(all, i + 1, nc + k),
                        SubSeq(net, k + 1, Len(net)), eof) :
                     k \in (i - nc)..Len(net)}
           ELSE IF reof
           THEN IF all = <<>> THEN {Exc("EOFError", TRUE)}
                ELSE {Ok("nomatch", all, <<>>, <<>>, TRUE)}
           ELSE {})
          \cup
          (IF timeout
           THEN {Ok("nomatch", SubSeq(all, 1, nc + k), <<>>,
                    SubSeq(net, k + 1, Len(net)), eof) :
                 k \in {j \in 0..Len(net) :
                          ~Has(SubSeq(all, 1, nc + j), match)}}
           ELSE {})

\* tn_client.write(buffer): the line is handed to the socket, or the call
\* raises (no socket; or the peer has closed and the send is refused).
write(buffer) ==
    IF ~sock
    THEN {[kind |-> "raise", exc |-> "AttributeError"]}
    ELSE {[kind |-> "ok", exc |-> ""]}
         \cup (IF reof THEN {[kind |-> "raise", exc |-> "BrokenPipeError"]}
               ELSE {})

\* self.tn_client is not None and self.tn_client.get_socket()
is_session_open == tn_client # "None" /\ sock

\* ------------------------------------------------------ control helpers
\* Where control continues when the method on top of stack s returns.
RECURSIVE AfterReturn(_)
AfterReturn(s) ==
    LET callee == Last(s)
        rest == SubSeq(s, 1, Len(s) - 1)
        caller == Last(rest)
    IN  IF rest = <<>> THEN [stk |-> <<>>, pc |-> "idle"]
        ELSE CASE caller = "__init__" /\ callee = "open_session" ->
                    [stk |-> rest \o <<"connect">>, pc |-> "c1"]
               [] caller = "execute_command" /\ callee = "wait_cli_prompt" ->
                    [stk |-> rest, pc |-> "e2"]
               [] caller = "close" /\ callee = "disconnect" ->
                    [stk |-> rest \o <<"close_session">>, pc |-> "cs1"]
               [] caller = "get_online_accounts"
                      /\ callee = "execute_command" ->
                    [stk |-> rest, pc |-> "g2"]
               [] caller = "account_set_addon"
                      /\ callee = "execute_command" ->
                    [stk |-> rest, pc |-> "ad2"]
               [] caller = "account_set_gm_level"
                      /\ callee = "execute_command" ->
                    [stk |-> rest, pc |-> "gm2"]
               [] OTHER -> AfterReturn(rest)

Goto(t, l) ==
    /\ pc' = [pc EXCEPT ![t] = l]
    /\ UNCHANGED <<stk, err, obj, closedOnce>>

Return(t) ==
    LET r == AfterReturn(stk[t])
        done == r.stk = <<>>
    IN  /\ pc' = [pc EXCEPT ![t] = r.pc]
        /\ stk' = [stk EXCEPT ![t] = r.stk]
        /\ obj' = IF done /\ stk[t][1] = "__init__" THEN "ready" ELSE obj
        /\ closedOnce' = (closedOnce \/ (done /\ stk[t][1] = "close"))
        /\ UNCHANGED err

Raise(t, x) ==
    /\ pc' = [pc EXCEPT ![t] = IF stk[t][1] = "__init__" THEN "dead" ELSE "idle"]
    /\ stk' = [stk EXCEPT ![t] = <<>>]
    /\ err' = [err EXCEPT ![t] = x]
    /\ obj' = IF stk[t][1] = "__init__" THEN "failed" ELSE obj
    /\ UNCHANGED closedOnce

Log(t, op, a, timeout, out) ==
    trace' = [trace EXCEPT ![t] =
                Append(@, [op |-> op, arg |-> a, timeout |-> timeout,
                           out |-> out])]

\* One read_until of caller t: the transport and the log change with the
\* outcome o; control is left to the caller.
DoRead(t, match, timeout, o) ==
    /\ cookedq' = o.cookedq
    /\ net' = o.net
    /\ eof' = o.eof
    /\ lastRead' = IF o.data = <<>> THEN lastRead ELSE Last(o.data)
    /\ Log(t, "read_until", <<match>>, timeout, o.kind)
    /\ UNCHANGED <<tn_client, sock, reof, tx, rstate, nbcast, wseq>>

\* One write of caller t.
DoWrite(t, buffer, o) ==
    /\ IF o.kind = "ok"
       THEN /\ tx' = Append(tx, [data |-> buffer, seq |-> wseq + 1])
            /\ wseq' = wseq + 1
       ELSE UNCHANGED <<tx, wseq>>
    /\ Log(t, "write", buffer, FALSE, o.kind)
    /\ UNCHANGED <<tn_client, sock, eof, cookedq, net, reof, rstate, nbcast,
                   lastRead>>

GotoCall(t, m, l) ==
    /\ pc' = [pc EXCEPT ![t] = l]
    /\ stk' = [stk EXCEPT ![t] = Append(@, m)]
    /\ UNCHANGED <<err, obj, closedOnce>>

\* ------------------------------------------------------ the wrapper
\* The first statement of each public method: the frames it puts on the
\* stack and the position it starts at.
\* execute_command written without its first statement (no flush).
execute_command_noflush ==
    [stk |-> <<"execute_command">>, pc |-> "e2"]

\* execute_command made to re-open the session before anything else.
execute_command_reopen ==
    [stk |-> <<"execute_command", "open_session">>, pc |-> "os"]

execute_command_entry ==
    [stk |-> <<"execute_command", "wait_cli_prompt">>, pc |-> "w1"]

Entry(m) ==
    CASE m = "open_session" -> [stk |-> <<m>>, pc |-> "os"]
      [] m = "connect" -> [stk |-> <<m>>, pc |-> "c1"]
      [] m = "wait_cli_prompt" -> [stk |-> <<m>>, pc |-> "w1"]
      [] m = "disconnect" -> [stk |-> <<m>>, pc |-> "d1"]
      [] m = "close_session" -> [stk |-> <<m>>, pc |-> "cs1"]
      [] m = "close" -> [stk |-> <<m, "disconnect">>, pc |-> "d1"]
      [] m = "execute_command" -> execute_command_entry

Methods ==
    {"open_session", "connect", "wait_cli_prompt", "disconnect",
     "close_session", "close", "execute_command"}

\* What a caller can observe of the session between two calls: the probe,
\* the end-of-stream flag, whether the last thing read was a prompt, and how
\* many prompt markers are unread or still owed by the console for lines
\* already written (none when the read position is at the ready prompt).
Backlog ==
    Cardinality({i \in 1..Len(cookedq \o net) :
                    (cookedq \o net)[i].txt = PromptMarker})
    + Cardinality({i \in 1..Len(tx) : tx[i].data # QuitLine})

Obs ==
    [open |-> is_session_open, eof |-> eof,
     atPrompt |-> lastRead.txt = PromptMarker, backlog |-> Backlog]

NoSnap == [meth |-> "", err |-> "", obs |-> <<>>]
NoInput == [fn |-> "none"]
NoOutput == [done |-> FALSE, val |-> <<>>, exc |-> ""]
NoWeb == [up |-> FALSE]

\* A caller invokes method m of the constructed object (execute_command
\* with command c).
Call(t, m, c) ==
    /\ pc[t] = "idle"
    /\ obj = "ready"
    /\ ncalls < MaxCalls
    /\ ncalls' = ncalls + 1
    /\ pc' = [pc EXCEPT ![t] = Entry(m).pc]
    /\ stk' = [stk EXCEPT ![t] = Entry(m).stk]
    /\ err' = [err EXCEPT ![t] = ""]
    /\ trace' = [trace EXCEPT ![t] = <<>>]
    /\ arg' = [arg EXCEPT ![t] = IF m = "execute_command" THEN c ELSE ""]
    /\ meth' = [meth EXCEPT ![t] = m]
    /\ eofAtCall' = [eofAtCall EXCEPT ![t] = eof /\ sock]
    /\ result' = [result EXCEPT ![t] = <<>>]
    /\ cmdseq' = [cmdseq EXCEPT ![t] = 0]
    /\ snap' = [snap EXCEPT ![t] =
                    IF m = "wait_cli_prompt" /\ meth[t] = m /\ err[t] = ""
                    THEN [meth |-> meth[t], err |-> err[t], obs |-> Obs]
                    ELSE NoSnap]
    /\ UNCHANGED <<transport, wire, obj, wseq, lastRead, flushed, closedOnce>>
    /\ UNCHANGED <<web, pin, pout, param, ret>>

\* open_session: a new Telnet object (and connection) unless the probe
\* reports a live socket.  The connection attempt may be refused.
\* An open_session that connects without asking the probe.
open_session_always(t) ==
    /\ pc[t] = "os"
    /\ UNCHANGED <<web, pin, pout, snap, param, ret, arg, meth, eofAtCall, result, cmdseq, flushed, ncalls, trace, nbcast>>
    /\ tn_client' = "Telnet"
    /\ sock' = TRUE
    /\ eof' = FALSE
    /\ cookedq' = <<>>
    /\ net' = <<>>
    /\ reof' = FALSE
    /\ tx' = <<>>
    /\ rstate' = "greet"
    /\ wseq' = 0
    /\ lastRead' = NoToken
    /\ Return(t)

open_session(t) ==
    /\ pc[t] = "os"
    /\ UNCHANGED <<web, pin, pout, snap, param, ret, arg, meth, eofAtCall, result, cmdseq, flushed, ncalls, trace, nbcast>>
    /\ IF ~is_session_open
       THEN \/ /\ tn_client' = "Telnet"
               /\ sock' = TRUE
               /\ eof' = FALSE
               /\ cookedq' = <<>>
               /\ net' = <<>>
               /\ reof' = FALSE
               /\ tx' = <<>>
               /\ rstate' = "greet"
               /\ wseq' = 0
               /\ lastRead' = NoToken
               /\ Return(t)
            \/ /\ UNCHANGED <<transport, net, reof, tx, rstate, wseq, lastRead>>
               /\ Raise(t, "ConnectionRefusedError")
       ELSE /\ UNCHANGED <<transport, net, reof, tx, rstate, wseq, lastRead>>
            /\ Return(t)

\* connect's first wait given a timeout, like the flush read.
connect_read_username_bounded(t) ==
    /\ pc[t] = "c1"
    /\ UNCHANGED <<web, pin, pout, snap, param, ret, arg, meth, eofAtCall, result, cmdseq, flushed, ncalls>>
    /\ \E o \in read_until(UsernamePrompt, TRUE) :
          /\ DoRead(t, UsernamePrompt, TRUE, o)
          /\ IF o.kind = "raise" THEN Raise(t, o.exc) ELSE Goto(t, "c2")

\* connect, line 64: self.tn_client.read_until(b"Username:")
connect_read_username(t) ==
    /\ pc[t] = "c1"
    /\ UNCHANGED <<web, pin, pout, snap, param, ret, arg, meth, eofAtCall, result, cmdseq, flushed, ncalls>>
    /\ \E o \in read_until(UsernamePrompt, FALSE) :
          /\ DoRead(t, UsernamePrompt, FALSE, o)
          /\ IF o.kind = "raise" THEN Raise(t, o.exc) ELSE Goto(t, "c2")

\* connect, line 66: write(user + b" \n")
connect_write_username(t) ==
    /\ pc[t] = "c2"
    /\ UNCHANGED <<web, pin, pout, snap, param, ret, arg, meth, eofAtCall, result, cmdseq, flushed, ncalls>>
    /\ \E o \in write(<<user, " \n">>) :
          /\ DoWrite(t, <<user, " \n">>, o)
          /\ IF o.kind = "raise" THEN Raise(t, o.exc) ELSE Goto(t, "c3")

\* connect, line 68: self.tn_client.read_until(b"Password:")
connect_read_password(t) ==
    /\ pc[t] = "c3"
    /\ UNCHANGED <<web, pin, pout, snap, param, ret, arg, meth, eofAtCall, result, cmdseq, flushed, ncalls>>
    /\ \E o \in read_until(PasswordPrompt, FALSE) :
          /\ DoRead(t, PasswordPrompt, FALSE, o)
          /\ IF o.kind = "raise" THEN Raise(t, o.exc) ELSE Goto(t, "c4")

\* connect, lines 70-71: write(pwd + b" \n"), then wait_cli_prompt()
connect_write_password(t) ==
    /\ pc[t] = "c4"
    /\ UNCHANGED <<web, pin, pout, snap, param, ret, arg, meth, eofAtCall, result, cmdseq, flushed, ncalls>>
    /\ \E o \in write(<<pwd, " \n">>) :
          /\ DoWrite(t, <<pwd, " \n">>, o)
          /\ IF o.kind = "raise" THEN Raise(t, o.exc)
             ELSE GotoCall(t, "wait_cli_prompt", "w1")

\* wait_cli_prompt, line 81: read_until(b"mangos>", timeout=0.2)
wait_cli_prompt_flush(t) ==
    /\ pc[t] = "w1"
    /\ UNCHANGED <<web, pin, pout, snap, param, ret, arg, meth, eofAtCall, result, cmdseq, flushed, ncalls>>
    /\ \E o \in read_until(PromptMarker, TRUE) :
          /\ DoRead(t, PromptMarker, TRUE, o)
          /\ IF o.kind = "raise" THEN Raise(t, o.exc) ELSE Goto(t, "w2")

\* wait_cli_prompt, line 83: write(b"\n")
wait_cli_prompt_newline(t) ==
    /\ pc[t] = "w2"
    /\ UNCHANGED <<web, pin, pout, snap, param, ret, arg, meth, eofAtCall, result, cmdseq, flushed, ncalls>>
    /\ \E o \in write(Newline) :
          /\ DoWrite(t, Newline, o)
          /\ IF o.kind = "raise" THEN Raise(t, o.exc) ELSE Goto(t, "w3")

\* wait_cli_prompt's second read given the timeout of the first.
wait_cli_prompt_read_bounded(t) ==
    /\ pc[t] = "w3"
    /\ UNCHANGED <<web, pin, pout, snap, param, ret, arg, meth, eofAtCall, result, cmdseq, ncalls>>
    /\ \E o \in read_until(PromptMarker, TRUE) :
          /\ DoRead(t, PromptMarker, TRUE, o)
          /\ IF o.kind = "raise"
             THEN Raise(t, o.exc) /\ UNCHANGED flushed
             ELSE Return(t) /\ flushed' = TRUE

\* wait_cli_prompt, line 85: read_until(b"mangos>"), result discarded
wait_cli_prompt_read(t) ==
    /\ pc[t] = "w3"
    /\ UNCHANGED <<web, pin, pout, snap, param, ret, arg, meth, eofAtCall, result, cmdseq, ncalls>>
    /\ \E o \in read_until(PromptMarker, FALSE) :
          /\ DoRead(t, PromptMarker, FALSE, o)
          /\ IF o.kind = "raise"
             THEN Raise(t, o.exc) /\ UNCHANGED flushed
             ELSE Return(t) /\ flushed' = TRUE

\* disconnect, line 95: write(b"quit \n")
disconnect(t) ==
    /\ pc[t] = "d1"
    /\ UNCHANGED <<web, pin, pout, snap, param, ret, arg, meth, eofAtCall, result, cmdseq, flushed, ncalls>>
    /\ \E o \in write(QuitLine) :
          /\ DoWrite(t, QuitLine, o)
          /\ IF o.kind = "raise" THEN Raise(t, o.exc) ELSE Return(t)

\* close_session, line 102: self.tn_client.close() drops the socket; what
\* was still in flight is lost, what was buffered stays in cookedq.
\* A close that forgets to release the transport.
close_session_keep(t) ==
    /\ pc[t] = "cs1"
    /\ Log(t, "close", <<>>, FALSE, "ok")
    /\ Return(t)
    /\ UNCHANGED <<web, pin, pout, snap, param, ret, transport, wire, wseq, lastRead, arg, meth,
                   eofAtCall, result, cmdseq, flushed, ncalls>>

close_session(t) ==
    /\ pc[t] = "cs1"
    /\ sock' = FALSE
    /\ eof' = TRUE
    /\ net' = <<>>
    /\ tx' = <<>>
    /\ reof' = FALSE
    /\ rstate' = "closed"
    /\ Log(t, "close", <<>>, FALSE, "ok")
    /\ Return(t)
    /\ UNCHANGED <<web, pin, pout, snap, param, ret, tn_client, cookedq, nbcast, wseq, lastRead, arg, meth,
                   eofAtCall, result, cmdseq, flushed, ncalls>>

\* execute_command, line 121: write(bytes(command, 'UTF-8'))
execute_command_write(t) ==
    /\ pc[t] = "e2"
    /\ UNCHANGED <<web, pin, pout, snap, param, ret, arg, meth, eofAtCall, result, ncalls>>
    /\ \E o \in write(<<arg[t]>>) :
          /\ DoWrite(t, <<arg[t]>>, o)
          /\ IF o.kind = "raise"
             THEN Raise(t, o.exc) /\ UNCHANGED <<cmdseq, flushed>>
             ELSE /\ Goto(t, "e3")
                  /\ cmdseq' = [cmdseq EXCEPT ![t] = wseq + 1]
                  /\ flushed' = FALSE

\* An execute_command that sends its command again when the reply read
\* fails.
execute_command_read_retry(t) ==
    /\ pc[t] = "e3"
    /\ UNCHANGED <<web, pin, pout, snap, param, ret, arg, meth, eofAtCall, cmdseq, flushed, ncalls>>
    /\ \E o \in read_until(PromptMarker, FALSE) :
          /\ DoRead(t, PromptMarker, FALSE, o)
          /\ IF o.kind = "raise"
             THEN Goto(t, "e2") /\ UNCHANGED result
             ELSE Return(t) /\ result' = [result EXCEPT ![t] = o.data]

\* execute_command, lines 123-125: read_until(b"mangos>") is the result
execute_command_read(t) ==
    /\ pc[t] = "e3"
    /\ UNCHANGED <<web, pin, pout, snap, param, ret, arg, meth, eofAtCall, cmdseq, flushed, ncalls>>
    /\ \E o \in read_until(PromptMarker, FALSE) :
          /\ DoRead(t, PromptMarker, FALSE, o)
          /\ IF o.kind = "raise"
             THEN Raise(t, o.exc) /\ UNCHANGED result
             ELSE Return(t) /\ result' = [result EXCEPT ![t] = o.data]

\* ------------------------------------------------- the remote console
Emit(toks) == net' = net \o toks

RemoteQuiet ==
    UNCHANGED <<web, pin, pout, snap, param, ret, transport, pc, stk, arg, meth, eofAtCall, result, err, obj,
                trace, ncalls,
                wseq, lastRead, cmdseq, flushed, closedOnce>>

\* The console greets a new connection with the username prompt.
RemoteGreet ==
    /\ rstate = "greet"
    /\ Emit(<<Tok(UsernamePrompt, 0)>>)
    /\ rstate' = "user"
    /\ UNCHANGED <<reof, tx, nbcast>>
    /\ RemoteQuiet

\* The peer is no console: it sends other text and never prompts.
RemoteMute ==
    /\ rstate = "greet"
    /\ Emit(<<Tok("noise", 0)>>)
    /\ rstate' = "mute"
    /\ UNCHANGED <<reof, tx, nbcast>>
    /\ RemoteQuiet

\* The console reads the username line and asks for the password.
RemoteUser ==
    /\ rstate = "user"
    /\ tx # <<>>
    /\ tx' = Tail(tx)
    /\ Emit(<<Tok(PasswordPrompt, Head(tx).seq)>>)
    /\ rstate' = "pass"
    /\ UNCHANGED <<reof, nbcast>>
    /\ RemoteQuiet

\* The console reads the password line: it accepts the credentials and
\* prints its welcome text and the first prompt, or rejects them and closes.
RemotePass ==
    /\ rstate = "pass"
    /\ tx # <<>>
    /\ tx' = Tail(tx)
    /\ \/ /\ Emit(<<Tok("welcome", Head(tx).seq),
                    Tok(PromptMarker, Head(tx).seq)>>)
          /\ rstate' = "cli"
          /\ UNCHANGED reof
       \/ /\ Emit(<<Tok("-Wrong pass.", Head(tx).seq)>>)
          /\ rstate' = "closed"
          /\ reof' = TRUE
    /\ UNCHANGED nbcast
    /\ RemoteQuiet

\* The console reads one line at the prompt: a bare newline re-emits the
\* prompt, quit ends the session, any other line is a command whose reply
\* is followed by the prompt.
RemoteLine ==
    /\ rstate = "cli"
    /\ tx # <<>>
    /\ tx' = Tail(tx)
    /\ LET l == Head(tx)
       IN  IF l.data = QuitLine
           THEN /\ rstate' = "closed"
                /\ reof' = TRUE
                /\ UNCHANGED net
           ELSE /\ UNCHANGED <<rstate, reof>>
                /\ IF l.data = Newline
                   THEN Emit(<<Tok(PromptMarker, l.seq)>>)
                   ELSE Emit(<<Tok("reply", l.seq), Tok(PromptMarker, l.seq)>>)
    /\ UNCHANGED nbcast
    /\ RemoteQuiet

\* Unsolicited console output (a broadcast, a log line) at any moment.
RemoteBroadcast ==
    /\ rstate = "cli"
    /\ nbcast < MaxBroadcast
    /\ nbcast' = nbcast + 1
    /\ Emit(<<Tok("broadcast", 0)>>)
    /\ UNCHANGED <<reof, tx, rstate>>
    /\ RemoteQuiet

\* The remote closes the stream.
RemoteClose ==
    /\ rstate \in {"greet", "user", "pass", "cli", "mute", "reply"}
    /\ rstate' = "closed"
    /\ reof' = TRUE
    /\ UNCHANGED <<net, tx, nbcast>>
    /\ RemoteQuiet

\* ------------------------------------------------------ specifications
\* __init__: fields set, tn_client None, open_session() about to run,
\* connect() to follow.  Caller 1 constructs the object.
SessionInit ==
    /\ tn_client = "None"
    /\ sock = FALSE
    /\ eof = FALSE
    /\ cookedq = <<>>
    /\ net = <<>>
    /\ reof = FALSE
    /\ tx = <<>>
    /\ rstate = "none"
    /\ pc = [t \in Threads |-> IF t = 1 THEN "os" ELSE "idle"]
    /\ stk = [t \in Threads |->
                IF t = 1 THEN <<"__init__", "open_session">> ELSE <<>>]
    /\ arg = [t \in Threads |-> ""]
    /\ meth = [t \in Threads |-> IF t = 1 THEN "__init__" ELSE ""]
    /\ eofAtCall = [t \in Threads |-> FALSE]
    /\ result = [t \in Threads |-> <<>>]
    /\ err = [t \in Threads |-> ""]
    /\ obj = "constructing"
    /\ trace = [t \in Threads |-> <<>>]
    /\ ncalls = 0
    /\ nbcast = 0
    /\ wseq = 0
    /\ lastRead = NoToken
    /\ cmdseq = [t \in Threads |-> 0]
    /\ flushed = FALSE
    /\ closedOnce = FALSE
    /\ snap = [t \in Threads |-> NoSnap]
    /\ param = [t \in Threads |-> 0]
    /\ ret = [t \in Threads |-> NoOutput]

Init ==
    /\ SessionInit
    /\ pin = NoInput
    /\ pout = NoOutput
    /\ web = NoWeb

Invoke(t) == \E m \in Methods : \E c \in Commands : Call(t, m, c)

Client(t) ==
    \/ Invoke(t)
    \/ open_session(t)
    \/ connect_read_username(t)
    \/ connect_write_username(t)
    \/ connect_read_password(t)
    \/ connect_write_password(t)
    \/ wait_cli_prompt_flush(t)
    \/ wait_cli_prompt_newline(t)
    \/ wait_cli_prompt_read(t)
    \/ disconnect(t)
    \/ close_session(t)
    \/ execute_command_write(t)
    \/ execute_command_read(t)

Remote ==
    \/ RemoteGreet
    \/ RemoteMute
    \/ RemoteUser
    \/ RemotePass
    \/ RemoteLine
    \/ RemoteBroadcast
    \/ RemoteClose

\* One caller: the session used as a single thread of control.
Next == Client(1) \/ Remote

Spec == Init /\ [][Next]_vars

\* Several callers share the object.
NextConc == (\E t \in Threads : Client(t)) \/ Remote

SpecConc == Init /\ [][NextConc]_vars

\* ------------------------------------------------ text of the replies
\* Bytes and text are sequences of one-character strings.  The catalogue
\* methods are functions of the text execute_command returns; they are
\* applied here to replies drawn from bounded sets.
MaxReply == 3

CR == "\r"
LF == "\n"
BS == "\\"
SQ == "'"
DQ == "\""

MarkerBytes == <<"m", "a", "n", "g", "o", "s", ">">>
ReplyBytes == {"a", "r", CR, LF, BS, SQ}

RECURSIVE SeqsUpTo(_, _)
SeqsUpTo(S, n) ==
    IF n = 0 THEN {<<>>}
    ELSE LET shorter == SeqsUpTo(S, n - 1)
         IN  shorter \cup {Append(q, x) : q \in shorter, x \in S}

Occurs(x, s) == \E i \in 1..Len(s) : s[i] = x

\* s[i:j] of Python for i >= 0 and j < 0.
Slice(s, i, j) == SubSeq(s, i + 1, Len(s) + j)

StartsWith(s, p) == Len(s) >= Len(p) /\ SubSeq(s, 1, Len(p)) = p

EndsWith(s, p) ==
    Len(s) >= Len(p) /\ SubSeq(s, Len(s) - Len(p) + 1, Len(s)) = p

\* p in s
Contains(s, p) ==
    \E i \in 0..(Len(s) - Len(p)) : SubSeq(s, i + 1, i + Len(p)) = p

\* Where p first occurs in s (p in s).
Find(s, p) ==
    CHOOSE k \in 1..Len(s) :
        /\ SubSeq(s, k, k + Len(p) - 1) = p
        /\ \A j \in 1..(k - 1) : SubSeq(s, j, j + Len(p) - 1) # p

\* s.replace(old, new) for a non-empty old: left to right, occurrences that
\* do not overlap.
RECURSIVE Replace(_, _, _)
Replace(s, old, new) ==
    IF ~Contains(s, old) THEN s
    ELSE SubSeq(s, 1, Find(s, old) - 1) \o new
             \o Replace(SubSeq(s, Find(s, old) + Len(old), Len(s)), old, new)

\* The concatenation of the sequences of ss.
RECURSIVE Flatten(_)
Flatten(ss) ==
    IF Len(ss) = 0 THEN <<>>
    ELSE IF Len(ss) = 1 THEN ss[1]
    ELSE Flatten(SubSeq(ss, 1, Len(ss) \div 2))
             \o Flatten(SubSeq(ss, Len(ss) \div 2 + 1, Len(ss)))

\* str(b) of a bytes object: b, a quote, the bytes with backslash, the quote
\* in use, CR and LF escaped, the quote again.
Escaped(b, q) ==
    Flatten([i \in 1..Len(b) |->
                CASE b[i] = BS -> <<BS, BS>>
                  [] b[i] = q -> <<BS, q>>
                  [] b[i] = CR -> <<BS, "r">>
                  [] b[i] = LF -> <<BS, "n">>
                  [] OTHER -> <<b[i]>>])

Repr(b) ==
    LET q == IF Occurs(SQ, b) /\ ~Occurs(DQ, b) THEN DQ ELSE SQ
    IN  <<"b", q>> \o Escaped(b, q) \o <<q>>

\* A conversion that also cuts the prompt marker off the end.
StrResult_nomarker(data) ==
    LET text == Replace(Slice(Repr(data), 2, -1), <<BS, "r">>, <<>>)
    IN  IF EndsWith(text, MarkerBytes)
        THEN SubSeq(text, 1, Len(text) - Len(MarkerBytes))
        ELSE text

\* execute_command, line 123: the bytes read through the prompt marker,
\* printed as a bytes literal, without b' and ', without the text \r.
StrResult(data) == Replace(Slice(Repr(data), 2, -1), <<BS, "r">>, <<>>)

Returned(v) == [done |-> TRUE, val |-> v, exc |-> ""]
Raised(e) == [done |-> TRUE, val |-> <<>>, exc |-> e]

\* execute_command returns after a reply read that found the marker: the
\* bytes read are the reply followed by the marker.
execute_command_return ==
    /\ pin.fn = "execute_command"
    /\ ~pout.done
    /\ pout' = Returned(StrResult(pin.reply \o MarkerBytes))
    /\ UNCHANGED <<svars, pin, web>>

\* ------------------------------------------------- the command lines
MaxArg == 2

\* Argument values callers may pass: any text, a newline included.
ArgBytes == {"x", LF}
ArgTexts == SeqsUpTo(ArgBytes, MaxArg)

\* ban_account, line 787: the command text handed to execute_command, which
\* writes its bytes unchanged (line 121).
ban_account_command(username, bantime, reason) ==
    <<"b", "a", "n", " ", "a", "c", "c", "o", "u", "n", "t", " ">> \o username \o <<" ">> \o bantime \o <<" ">>
        \o reason \o <<" ", LF>>

\* account_delete, line 226.
account_delete_command(username) ==
    <<"a", "c", "c", "o", "u", "n", "t", " ", "d", "e", "l", "e", "t", "e", " ">> \o username \o <<" ", LF>>

\* The bytes execute_command writes for a catalogue call.
ban_account_write ==
    /\ pin.fn = "ban_account"
    /\ ~pout.done
    /\ pout' = Returned(ban_account_command(pin.username, pin.bantime,
                                            pin.reason))
    /\ UNCHANGED <<svars, pin, web>>

account_delete_write ==
    /\ pin.fn = "account_delete_command"
    /\ ~pout.done
    /\ pout' = Returned(account_delete_command(pin.username))
    /\ UNCHANGED <<svars, pin, web>>

\* ----------------------------------------------------- the tabular parser
\* s.split(sep) for a non-empty sep.
RECURSIVE Split(_, _)
Split(s, sep) ==
    IF ~Contains(s, sep) THEN <<s>>
    ELSE <<SubSeq(s, 1, Find(s, sep) - 1)>>
             \o Split(SubSeq(s, Find(s, sep) + Len(sep), Len(s)), sep)

Whitespace == {" ", "\t", LF, CR}

\* s.strip()
RECURSIVE LStrip(_)
LStrip(s) ==
    IF s # <<>> /\ s[1] \in Whitespace THEN LStrip(Tail(s)) ELSE s

RECURSIVE RStrip(_)
RStrip(s) ==
    IF s # <<>> /\ s[Len(s)] \in Whitespace
    THEN RStrip(SubSeq(s, 1, Len(s) - 1))
    ELSE s

Strip(s) == LStrip(RStrip(s))

DigitChars == <<"0", "1", "2", "3", "4", "5", "6", "7", "8", "9">>

IsDigit(c) == \E d \in 1..Len(DigitChars) : DigitChars[d] = c

AllDigits(s) == s # <<>> /\ \A i \in 1..Len(s) : IsDigit(s[i])

RECURSIVE DigitsValue(_)
DigitsValue(s) ==
    IF s = <<>> THEN 0
    ELSE 10 * DigitsValue(SubSeq(s, 1, Len(s) - 1))
         + (CHOOSE d \in 0..9 : DigitChars[d + 1] = s[Len(s)])

\* int(s): surrounding whitespace and one sign are accepted; anything else
\* than decimal digits raises ValueError.
Unsigned(s) ==
    IF s # <<>> /\ s[1] \in {"+", "-"} THEN Tail(s) ELSE s

IntOk(s) == AllDigits(Unsigned(Strip(s)))

IntOf(s) ==
    IF Strip(s) # <<>> /\ Strip(s)[1] = "-"
    THEN 0 - DigitsValue(Unsigned(Strip(s)))
    ELSE DigitsValue(Unsigned(Strip(s)))

\* A dict that puts a new key first.
DictSet_front(d, k, v) ==
    IF \E i \in 1..Len(d) : d[i].key = k
    THEN [i \in 1..Len(d) |->
             IF d[i].key = k THEN [key |-> k, val |-> v] ELSE d[i]]
    ELSE <<[key |-> k, val |-> v]>> \o d

\* A dict that appends whatever the key.
DictSet_append(d, k, v) == Append(d, [key |-> k, val |-> v])

\* d[k] = v on a dict, which keeps its keys in the order of first insertion.
DictSet(d, k, v) ==
    IF \E i \in 1..Len(d) : d[i].key = k
    THEN [i \in 1..Len(d) |->
             IF d[i].key = k THEN [key |-> k, val |-> v] ELSE d[i]]
    ELSE Append(d, [key |-> k, val |-> v])

\* A parser that skips the rows it cannot unpack.
RECURSIVE online_rows_lenient(_, _)
online_rows_lenient(rows, accounts) ==
    IF rows = <<>> THEN Returned(accounts)
    ELSE LET f == Split(Slice(rows[1], 1, -1), <<"|">>)
         IN  IF Len(f) # 6 \/ ~IntOk(f[1])
             THEN online_rows_lenient(Tail(rows), accounts)
             ELSE online_rows_lenient(Tail(rows),
                      DictSet(accounts, Strip(f[1]),
                              [id |-> IntOf(f[1]), username |-> Strip(f[2]),
                               character |-> Strip(f[3]), ip |-> Strip(f[4]),
                               gm |-> Strip(f[5]),
                               expansion |-> Strip(f[6])]))

\* The loop of get_online_accounts, lines 138-147: a row that does not
\* unpack into six names, or whose id is no integer, raises ValueError.
RECURSIVE online_rows(_, _)
online_rows(rows, accounts) ==
    IF rows = <<>> THEN Returned(accounts)
    ELSE LET f == Split(Slice(rows[1], 1, -1), <<"|">>)
         IN  IF Len(f) # 6 \/ ~IntOk(f[1])
             THEN Raised("ValueError")
             ELSE online_rows(Tail(rows),
                      DictSet(accounts, Strip(f[1]),
                              [id |-> IntOf(f[1]), username |-> Strip(f[2]),
                               character |-> Strip(f[3]), ip |-> Strip(f[4]),
                               gm |-> Strip(f[5]),
                               expansion |-> Strip(f[6])]))

\* A parser that takes every line after the first two as a row.
get_online_accounts_from2(text) ==
    online_rows(Slice(Split(text, <<BS, "n">>), 2, -2), <<>>)

\* get_online_accounts, lines 135-148, applied to the text execute_command
\* returned: the text is cut at every \n, the first three and the last two
\* pieces are dropped.
get_online_accounts(text) ==
    online_rows(Slice(Split(text, <<BS, "n">>), 3, -2), <<>>)

\* The loop of account_get_characters, lines 160-168.
RECURSIVE character_rows(_, _)
character_rows(rows, characters) ==
    IF rows = <<>> THEN Returned(characters)
    ELSE LET f == Split(Slice(rows[1], 1, -1), <<"|">>)
         IN  IF Len(f) # 5 \/ ~IntOk(f[5])
             THEN Raised("ValueError")
             ELSE character_rows(Tail(rows),
                      DictSet(characters, Strip(f[1]),
                              [guid |-> Strip(f[1]), name |-> Strip(f[2]),
                               race |-> Strip(f[3]), class |-> Strip(f[4]),
                               level |-> IntOf(f[5])]))

\* account_get_characters, lines 157-169.
account_get_characters(text) ==
    character_rows(Slice(Split(text, <<BS, "n">>), 3, -2), <<>>)

\* ------------------------------------------------------- tabular replies
MaxRows == 3

RuleLine == <<"=", "=", "=", "=">>

\* One table row as the console prints it: | field | field | ... |
RECURSIVE RowBytes(_)
RowBytes(fields) ==
    IF fields = <<>> THEN <<"|">>
    ELSE <<"|">> \o fields[1] \o RowBytes(Tail(fields))

RECURSIVE Lines(_, _)
Lines(ls, eol) ==
    IF ls = <<>> THEN <<>> ELSE ls[1] \o eol \o Lines(Tail(ls), eol)

\* The reply to a listing command: header lines, rows, trailing lines.
TableBytes(nhead, rows, ntail, eol) ==
    Lines([i \in 1..nhead |-> RuleLine], eol)
        \o Lines([i \in 1..Len(rows) |-> RowBytes(rows[i])], eol)
        \o Lines([i \in 1..ntail |-> RuleLine], eol)

\* The two rows of the listing scenario.
RowAlice ==
    <<<<"1">>, <<"a", "l", "i", "c", "e">>, <<"c", "h", "a", "r", "1">>, <<"1", ".", "2", ".", "3", ".", "4">>, <<"0">>, <<"1">>>>

RowBob ==
    <<<<"2">>, <<"b", "o", "b">>, <<"c", "h", "a", "r", "2">>, <<"5", ".", "6", ".", "7", ".", "8">>, <<"1">>, <<"2">>>>

\* Rows of the online-accounts listing: two sound rows, a row with the key
\* of the first one padded with blanks, a short row, a row with no number.
OnlineRows ==
    {<<<<"1">>, <<"a", "l", "i", "c", "e">>, <<"c", "h", "a", "r", "1">>, <<"1", ".", "2", ".", "3", ".", "4">>, <<"0">>, <<"1">>>>,
     <<<<"2">>, <<"b", "o", "b">>, <<"c", "h", "a", "r", "2">>, <<"5", ".", "6", ".", "7", ".", "8">>, <<"1">>, <<"2">>>>,
     <<<<" ", "1", " ">>, <<" ", "a", "l", " ">>, <<"c">>, <<"i", "p">>, <<"0">>, <<"0">>>>,
     <<<<"3">>, <<"c", "a", "r", "l">>>>,
     <<<<"x">>, <<"d", "a", "n">>, <<"c">>, <<"i", "p">>, <<"0">>, <<"0">>>>}

\* Rows of the characters listing: guid, name, race, class, level.
CharacterRows ==
    {<<<<"7">>, <<"T", "h", "r", "a", "l", "l">>, <<"2">>, <<"7">>, <<"6", "0">>>>,
     <<<<" ", "8", " ">>, <<"J", "a", "i", "n", "a">>, <<"1">>, <<"8">>, <<" ", "1", "2", " ">>>>,
     <<<<"9">>, <<"B", "o">>>>}

HeadCounts == {2, 3}
TailCounts == {1, 2}
Eols == {<<LF>>, <<CR, LF>>}

get_online_accounts_return ==
    /\ pin.fn = "get_online_accounts"
    /\ ~pout.done
    /\ pout' = get_online_accounts(
                   StrResult(TableBytes(pin.nhead, pin.rows, pin.ntail,
                                        pin.eol) \o MarkerBytes))
    /\ UNCHANGED <<svars, pin, web>>

account_get_characters_return ==
    /\ pin.fn = "account_get_characters"
    /\ ~pout.done
    /\ pout' = account_get_characters(
                   StrResult(TableBytes(pin.nhead, pin.rows, pin.ntail,
                                        pin.eol) \o MarkerBytes))
    /\ UNCHANGED <<svars, pin, web>>

\* ----------------------------------------------------- sentinel parsers
DeletedPhrase == <<"A", "c", "c", "o", "u", "n", "t", " ", "d", "e", "l", "e", "t", "e", "d", ":">>
ExistsPhrase == <<"A", "c", "c", "o", "u", "n", "t", " ", "w", "i", "t", "h", " ", "t", "h", "i", "s", " ", "n", "a", "m", "e", " ", "a", "l", "r", "e", "a", "d", "y", " ", "e", "x", "i", "s", "t">>
CreatedPhrase == <<"A", "c", "c", "o", "u", "n", "t", " ", "c", "r", "e", "a", "t", "e", "d", ":">>

\* What the console may answer: nothing, one of its phrases, the phrase in
\* another case, cut short or with a CR inside, an unrelated text.
Phrases ==
    {<<>>, DeletedPhrase,
     <<"A", "c", "c", "o", "u", "n", "t", CR, " ", "d", "e", "l", "e", "t", "e", "d", ":">>, <<"a", "c", "c", "o", "u", "n", "t", " ", "d", "e", "l", "e", "t", "e", "d", ":">>, <<"A", "c", "c", "o", "u", "n", "t", " ", "d", "e", "l", "e", "t", "e", "d">>,
     <<"A", "c", "c", "o", "u", "n", "t", " ", "n", "o", "t", " ", "f", "o", "u", "n", "d">>, CreatedPhrase, ExistsPhrase,
     <<"S", "y", "n", "t", "a", "x", " ", "e", "r", "r", "o", "r">>}

Before == {<<>>, <<"x", " ">>, <<CR, LF>>}
After == {<<>>, <<" ", "b", "o", "b">>, <<"!", CR, LF>>}

\* A parser that looks for the phrase at the start of the text only.
account_delete_prefix(text) == StartsWith(text, DeletedPhrase)

\* account_delete, line 227.
account_delete(text) == Contains(text, DeletedPhrase)

\* account_create, line 180.
account_create(text) == ~Contains(text, ExistsPhrase)

account_delete_return ==
    /\ pin.fn = "account_delete"
    /\ ~pout.done
    /\ pout' = Returned(account_delete(
                   StrResult(pin.pre \o pin.mid \o pin.post \o MarkerBytes)))
    /\ UNCHANGED <<svars, pin, web>>

account_create_return ==
    /\ pin.fn = "account_create"
    /\ ~pout.done
    /\ pout' = Returned(account_create(
                   StrResult(pin.pre \o pin.mid \o pin.post \o MarkerBytes)))
    /\ UNCHANGED <<svars, pin, web>>

\* ------------------------------------------------------- detail parsers
\* s.split(sep, maxsplit=1)
SplitOnce(s, sep) ==
    IF ~Contains(s, sep) THEN <<s>>
    ELSE <<SubSeq(s, 1, Find(s, sep) - 1),
           SubSeq(s, Find(s, sep) + Len(sep), Len(s))>>

LimitSeparator == <<",", " ", "m", "i", "n", ".", " ", "s", "e", "c", "u", "r", "i", "t", "y", " ", "l", "e", "v", "e", "l", " ">>
InventorySeparator == <<" ", "(", " ", "i", "n", "v", "e", "n", "t", "o", "r", "y", " ">>
InvalidItemPhrase == <<"I", "n", "v", "a", "l", "i", "d", " ", "i", "t", "e", "m", " ", "i", "d">>

\* A parser that fills in what it finds and leaves the rest empty.
server_show_player_limits_lenient(text) ==
    LET parts == SplitOnce(SplitOnce(text, <<BS, "n">>)[1], LimitSeparator)
    IN  IF Len(parts) # 2
        THEN Returned([amount |-> 0, access_level |-> <<>>])
        ELSE IF ~IntOk(SubSeq(parts[1], 23, Len(parts[1])))
        THEN Raised("ValueError")
        ELSE Returned([amount |-> IntOf(SubSeq(parts[1], 23, Len(parts[1]))),
                       access_level |-> Slice(parts[2], 0, -1)])

\* server_show_player_limits, lines 2121-2127, applied to the text
\* execute_command returned: the first line is cut once at the separator
\* and unpacked into two names, which raises ValueError when it is absent.
server_show_player_limits(text) ==
    LET parts == SplitOnce(SplitOnce(text, <<BS, "n">>)[1], LimitSeparator)
    IN  IF Len(parts) # 2 THEN Raised("ValueError")
        ELSE IF ~IntOk(SubSeq(parts[1], 23, Len(parts[1])))
        THEN Raised("ValueError")
        ELSE Returned([amount |-> IntOf(SubSeq(parts[1], 23, Len(parts[1]))),
                       access_level |-> Slice(parts[2], 0, -1)])

\* list_items, lines 2382-2398, after the test for an unknown item: the
\* first line is cut at " ( inventory ", ": ", " mail ", " auction " and
\* " guild " in turn.
list_items_record(line) ==
    LET a == SplitOnce(line, InventorySeparator)
    IN  IF Len(a) # 2 THEN Raised("ValueError")
        ELSE IF Len(Split(a[1], <<":", " ">>)) < 2 THEN Raised("IndexError")
        ELSE LET b == SplitOnce(a[2], <<" ", "m", "a", "i", "l", " ">>)
             IN  IF Len(b) # 2 THEN Raised("ValueError")
        ELSE LET c == SplitOnce(b[2], <<" ", "a", "u", "c", "t", "i", "o", "n", " ">>)
             IN  IF Len(c) # 2 THEN Raised("ValueError")
        ELSE LET d == SplitOnce(c[2], <<" ", "g", "u", "i", "l", "d", " ">>)
             IN  IF Len(d) # 2 THEN Raised("ValueError")
        ELSE IF ~IntOk(Split(a[1], <<":", " ">>)[2]) THEN Raised("ValueError")
        ELSE Returned([total |-> IntOf(Split(a[1], <<":", " ">>)[2]),
                       inventory |-> b[1], mail |-> c[1], auction |-> d[1],
                       guild |-> Slice(d[2], 0, -1)])

\* list_items, lines 2381-2398.
list_items(text) ==
    IF Contains(text, InvalidItemPhrase) THEN Returned(<<>>)
    ELSE list_items_record(SplitOnce(text, <<BS, "n">>)[1])

\* First lines the console may answer to "server plimit": the limits, a
\* line of another shape, a limit that is no number, nothing.
LimitLines ==
    {<<"P", "l", "a", "y", "e", "r", " ", "l", "i", "m", "i", "t", "s", ":", " ", "a", "m", "o", "u", "n", "t", " ", "1", "0", "0", ",", " ", "m", "i", "n", ".", " ", "s", "e", "c", "u", "r", "i", "t", "y", " ", "l", "e", "v", "e", "l", " ", "P", "l", "a", "y", "e", "r", ".">>,
     <<"P", "l", "a", "y", "e", "r", " ", "l", "i", "m", "i", "t", "s", ":", " ", "a", "m", "o", "u", "n", "t", " ", "x", ",", " ", "m", "i", "n", ".", " ", "s", "e", "c", "u", "r", "i", "t", "y", " ", "l", "e", "v", "e", "l", " ", "P", "l", "a", "y", "e", "r", ".">>,
     <<"P", "l", "a", "y", "e", "r", " ", "l", "i", "m", "i", "t", "s", ":", " ", "a", "m", "o", "u", "n", "t", " ", "1", "0", "0">>,
     <<"C", "o", "m", "m", "a", "n", "d", " ", "n", "o", "t", " ", "f", "o", "u", "n", "d">>,
     <<>>}

\* First lines the console may answer to "list item".
ItemLines ==
    {<<"I", "t", "e", "m", " ", "c", "o", "u", "n", "t", ":", " ", "5", " ", "(", " ", "i", "n", "v", "e", "n", "t", "o", "r", "y", " ", "2", " ", "m", "a", "i", "l", " ", "1", " ", "a", "u", "c", "t", "i", "o", "n", " ", "1", " ", "g", "u", "i", "l", "d", " ", "1", ")">>,
     <<"I", "t", "e", "m", " ", "c", "o", "u", "n", "t", ":", " ", "5", " ", "(", " ", "i", "n", "v", "e", "n", "t", "o", "r", "y", " ", "2", " ", "m", "a", "i", "l", " ", "1", ")">>,
     <<"I", "t", "e", "m", " ", "c", "o", "u", "n", "t", " ", "5", " ", "(", " ", "i", "n", "v", "e", "n", "t", "o", "r", "y", " ", "2", " ", "m", "a", "i", "l", " ", "1", " ", "a", "u", "c", "t", "i", "o", "n", " ", "1", " ", "g", "u", "i", "l", "d", " ", "1", ")">>,
     <<"I", "t", "e", "m", " ", "c", "o", "u", "n", "t", ":", " ", "5">>,
     <<"I", "n", "v", "a", "l", "i", "d", " ", "i", "t", "e", "m", " ", "i", "d", ":", " ", "7">>,
     <<"N", "o", " ", "i", "t", "e", "m", "s", " ", "f", "o", "u", "n", "d", "!">>,
     <<>>}

\* What follows the first line: nothing but the prompt, a line end, a line
\* end and a second line that does hold the separators.
MoreLines ==
    {<<>>, <<CR, LF>>,
     <<LF>> \o <<"x", ",", " ", "m", "i", "n", ".", " ", "s", "e", "c", "u", "r", "i", "t", "y", " ", "l", "e", "v", "e", "l", " ", "y", " ", "(", " ", "i", "n", "v", "e", "n", "t", "o", "r", "y", " ", "z">> \o <<CR, LF>>}

server_show_player_limits_return ==
    /\ pin.fn = "server_show_player_limits"
    /\ ~pout.done
    /\ pout' = server_show_player_limits(
                   StrResult(pin.line \o pin.more \o MarkerBytes))
    /\ UNCHANGED <<svars, pin, web>>

list_items_return ==
    /\ pin.fn = "list_items"
    /\ ~pout.done
    /\ pout' = list_items(StrResult(pin.line \o pin.more \o MarkerBytes))
    /\ UNCHANGED <<svars, pin, web>>

\* ------------------------------------------------ deleted characters
NoCharactersPhrase == <<"N", "o", " ", "c", "h", "a", "r", "a", "c", "t", "e", "r", "s", " ", "f", "o", "u", "n", "d", ".">>

\* The truth value of a str in an if: any text but the empty one.
Truthy(s) == s # <<>>

\* character_deleted_list, lines 1145-1148: the condition of the if is the
\* phrase itself, not a test of the reply.
character_deleted_list(text) ==
    IF Truthy(NoCharactersPhrase) THEN Returned(<<>>) ELSE Returned(text)

\* character_search_deleted_list, lines 1157-1160.
character_search_deleted_list(text) ==
    IF Truthy(NoCharactersPhrase) THEN Returned(<<>>) ELSE Returned(text)

\* Replies to "character deleted list": the sentinel, a listing, nothing.
DeletedListReplies ==
    {NoCharactersPhrase, <<"|", " ", "7", " ", "|", " ", "T", "h", "r", "a", "l", "l", " ", "|", " ", "1", " ", "|">>, <<>>}

character_deleted_list_return ==
    /\ pin.fn = "character_deleted_list"
    /\ ~pout.done
    /\ pout' = character_deleted_list(
                   StrResult(pin.pre \o pin.mid \o pin.post \o MarkerBytes))
    /\ UNCHANGED <<svars, pin, web>>

character_search_deleted_list_return ==
    /\ pin.fn = "character_search_deleted_list"
    /\ ~pout.done
    /\ pout' = character_search_deleted_list(
                   StrResult(pin.pre \o pin.mid \o pin.post \o MarkerBytes))
    /\ UNCHANGED <<svars, pin, web>>

\* ------------------------------------------- specification of the text
\* The object is as constructed; one catalogue method is applied to one
\* reply or one set of arguments.
InitText ==
    /\ SessionInit
    /\ pout = NoOutput
    /\ web = NoWeb
    /\ \/ \E r \in SeqsUpTo(ReplyBytes, MaxReply) :
             pin = [fn |-> "execute_command", reply |-> r]
       \/ \E u \in ArgTexts, b \in ArgTexts, r \in ArgTexts :
             pin = [fn |-> "ban_account", username |-> u, bantime |-> b,
                    reason |-> r]
       \/ \E u \in ArgTexts :
             pin = [fn |-> "account_delete_command", username |-> u]
       \/ \E h \in HeadCounts, t \in TailCounts, e \in Eols :
          \E rs \in SeqsUpTo(OnlineRows, MaxRows) :
             pin = [fn |-> "get_online_accounts", nhead |-> h, rows |-> rs,
                    ntail |-> t, eol |-> e]
       \/ \E h \in HeadCounts, t \in TailCounts, e \in Eols :
          \E rs \in SeqsUpTo(CharacterRows, MaxRows) :
             pin = [fn |-> "account_get_characters", nhead |-> h,
                    rows |-> rs, ntail |-> t, eol |-> e]
       \/ \E f \in {"account_delete", "account_create"} :
          \E a \in Before, m \in Phrases, z \in After :
             pin = [fn |-> f, pre |-> a, mid |-> m, post |-> z]
       \/ \E l \in LimitLines, m \in MoreLines :
             pin = [fn |-> "server_show_player_limits", line |-> l,
                    more |-> m]
       \/ \E l \in ItemLines, m \in MoreLines :
             pin = [fn |-> "list_items", line |-> l, more |-> m]
       \/ \E f \in {"character_deleted_list",
                     "character_search_deleted_list"} :
          \E a \in Before, m \in DeletedListReplies, z \in After :
             pin = [fn |-> f, pre |-> a, mid |-> m, post |-> z]

NextText ==
    \/ execute_command_return
    \/ ban_account_write
    \/ account_delete_write
    \/ get_online_accounts_return
    \/ account_get_characters_return
    \/ account_delete_return
    \/ account_create_return
    \/ server_show_player_limits_return
    \/ list_items_return
    \/ character_deleted_list_return
    \/ character_search_deleted_list_return

SpecText == InitText /\ [][NextText]_vars

\* --------------------------------------- catalogue methods on a session
\* The bytes a piece of the stream stands for.
RowShort == <<<<"3">>, <<"c", "a", "r", "l">>>>

TokBytes(txt) ==
    CASE txt = PromptMarker -> MarkerBytes
      [] txt = "table" -> TableBytes(3, <<RowAlice>>, 1, <<CR, LF>>)
      [] txt = "badtable" -> TableBytes(3, <<RowShort>>, 1, <<CR, LF>>)
      [] txt = "levelset" ->
             <<"Y", "o", "u", " ", "c", "h", "a", "n", "g", "e", " ", "s", "e", "c", "u", "r", "i", "t", "y", " ", "l", "e", "v", "e", "l", " ", "o", "f", " ", "a", "c", "c", "o", "u", "n", "t", " ", "B", "O", "B", " ", "t", "o", " ", "3", ".">>
                 \o <<CR, LF>>
      [] txt = "addonset" ->
             <<"A", "c", "c", "o", "u", "n", "t", " ", "B", "O", "B", " ", "h", "a", "s", " ", "b", "e", "e", "n", " ", "g", "r", "a", "n", "t", "e", "d", " ", "2", " ", "e", "x", "p", "a", "n", "s", "i", "o", "n", " ", "r", "i", "g", "h", "t", "s", ".">>
                 \o <<CR, LF>>
      [] txt = "noaccount" -> <<"A", "c", "c", "o", "u", "n", "t", " ", "n", "o", "t", " ", "e", "x", "i", "s", "t", ":", " ", "B", "O", "B">> \o <<CR, LF>>
      [] OTHER -> <<"t", "e", "x", "t">> \o <<CR, LF>>

\* The text execute_command returns for the pieces it has read.
ResultText(data) ==
    StrResult(Flatten([i \in 1..Len(data) |-> TokBytes(data[i].txt)]))

OnlineListCommand == "account onlinelist \n"

\* 'account set gmlevel ' + username + ' ' + str(gm_level) + ' \n'
GmLevelCommand(n) ==
    CASE n = 0 -> "account set gmlevel BOB 0 \n"
      [] n = 1 -> "account set gmlevel BOB 1 \n"
      [] n = 2 -> "account set gmlevel BOB 2 \n"
      [] n = 3 -> "account set gmlevel BOB 3 \n"
      [] OTHER -> "account set gmlevel BOB n \n"

\* 'account set addon ' + username + ' ' + str(addon) + ' \n'
AddonCommand(n) ==
    CASE n = 0 -> "account set addon BOB 0 \n"
      [] n = 2 -> "account set addon BOB 2 \n"
      [] OTHER -> "account set addon BOB n \n"

\* 'has been granted ' + str(addon) + ' expansion rights.'
AddonPhrase(n) ==
    <<"h", "a", "s", " ", "b", "e", "e", "n", " ", "g", "r", "a", "n", "t", "e", "d", " ">>
        \o (CASE n = 0 -> <<"0">> [] n = 2 -> <<"2">> [] OTHER -> <<"n">>)
        \o <<" ", "e", "x", "p", "a", "n", "s", "i", "o", "n", " ", "r", "i", "g", "h", "t", "s", ".">>

GmLevelPhrase == <<"Y", "o", "u", " ", "c", "h", "a", "n", "g", "e", " ", "s", "e", "c", "u", "r", "i", "t", "y", " ", "l", "e", "v", "e", "l", " ", "o", "f", " ", "a", "c", "c", "o", "u", "n", "t", " ">>

\* Values callers pass for gm_level and addon.
GmLevels == {0 - 1, 0, 3, 4}
Addons == {0 - 1, 2}

CatalogueMethods ==
    {"get_online_accounts", "account_set_gm_level", "account_set_addon"}

CatalogueEntry(m) ==
    CASE m = "get_online_accounts" -> "g1"
      [] m = "account_set_gm_level" -> "gm1"
      [] m = "account_set_addon" -> "ad1"

\* A caller invokes a catalogue method with integer argument n.
CallCatalogue(t, m, n) ==
    /\ pc[t] = "idle"
    /\ obj = "ready"
    /\ ncalls < MaxCalls
    /\ ncalls' = ncalls + 1
    /\ pc' = [pc EXCEPT ![t] = CatalogueEntry(m)]
    /\ stk' = [stk EXCEPT ![t] = <<m>>]
    /\ err' = [err EXCEPT ![t] = ""]
    /\ trace' = [trace EXCEPT ![t] = <<>>]
    /\ arg' = [arg EXCEPT ![t] = ""]
    /\ meth' = [meth EXCEPT ![t] = m]
    /\ eofAtCall' = [eofAtCall EXCEPT ![t] = eof /\ sock]
    /\ result' = [result EXCEPT ![t] = <<>>]
    /\ cmdseq' = [cmdseq EXCEPT ![t] = 0]
    /\ snap' = [snap EXCEPT ![t] = NoSnap]
    /\ param' = [param EXCEPT ![t] = n]
    /\ ret' = [ret EXCEPT ![t] = NoOutput]
    /\ UNCHANGED <<transport, wire, obj, wseq, lastRead, flushed, closedOnce>>
    /\ UNCHANGED <<web, pin, pout>>

\* The method calls execute_command(c): control enters wait_cli_prompt.
EnterExecute(t, c) ==
    /\ pc' = [pc EXCEPT ![t] = execute_command_entry.pc]
    /\ stk' = [stk EXCEPT ![t] = @ \o execute_command_entry.stk]
    /\ arg' = [arg EXCEPT ![t] = c]
    /\ UNCHANGED <<transport, wire, wseq, lastRead, trace, err, obj,
                   closedOnce, ret>>

\* The method returns v, or raises, without touching the transport.
Leave(t, out) ==
    /\ ret' = [ret EXCEPT ![t] = out]
    /\ IF out.exc = "" THEN Return(t) ELSE Raise(t, out.exc)
    /\ UNCHANGED <<transport, wire, wseq, lastRead, trace, arg>>

CatalogueFrame ==
    UNCHANGED <<web, pin, pout, snap, param, meth, eofAtCall, result, cmdseq,
                flushed, ncalls>>

\* get_online_accounts, line 136
get_online_accounts_call(t) ==
    /\ pc[t] = "g1"
    /\ EnterExecute(t, OnlineListCommand)
    /\ CatalogueFrame

\* get_online_accounts, lines 137-148
get_online_accounts_parse(t) ==
    /\ pc[t] = "g2"
    /\ Leave(t, get_online_accounts(ResultText(result[t])))
    /\ CatalogueFrame

\* An account_set_gm_level that checks the lower end of the range only.
account_set_gm_level_check_low(t) ==
    /\ pc[t] = "gm1"
    /\ IF param[t] < 0
       THEN Leave(t, Returned(FALSE))
       ELSE EnterExecute(t, GmLevelCommand(param[t]))
    /\ CatalogueFrame

\* account_set_gm_level, lines 214-216
account_set_gm_level_check(t) ==
    /\ pc[t] = "gm1"
    /\ IF param[t] < 0 \/ param[t] > 3
       THEN Leave(t, Returned(FALSE))
       ELSE EnterExecute(t, GmLevelCommand(param[t]))
    /\ CatalogueFrame

\* account_set_gm_level, line 217
account_set_gm_level_parse(t) ==
    /\ pc[t] = "gm2"
    /\ Leave(t, Returned(Contains(ResultText(result[t]), GmLevelPhrase)))
    /\ CatalogueFrame

\* account_set_addon, lines 201-203
account_set_addon_check(t) ==
    /\ pc[t] = "ad1"
    /\ IF param[t] < 0
       THEN Leave(t, Returned(FALSE))
       ELSE EnterExecute(t, AddonCommand(param[t]))
    /\ CatalogueFrame

\* account_set_addon, line 204
account_set_addon_parse(t) ==
    /\ pc[t] = "ad2"
    /\ Leave(t, Returned(Contains(ResultText(result[t]),
                                  AddonPhrase(param[t]))))
    /\ CatalogueFrame

\* The console reads one line at the prompt and answers it with a reply of
\* the shape the command calls for, or of another shape, and the prompt.
Shapes(line) ==
    IF line = <<OnlineListCommand>> THEN {"table", "badtable"}
    ELSE IF \E n \in GmLevels : line = <<GmLevelCommand(n)>>
    THEN {"levelset", "noaccount"}
    ELSE IF \E n \in Addons : line = <<AddonCommand(n)>>
    THEN {"addonset", "noaccount"}
    ELSE {"reply"}

RemoteLineShaped ==
    /\ rstate = "cli"
    /\ tx # <<>>
    /\ LET l == Head(tx)
       IN  IF l.data = QuitLine
           THEN /\ rstate' = "closed"
                /\ reof' = TRUE
                /\ tx' = Tail(tx)
                /\ UNCHANGED net
           ELSE IF l.data = Newline
           THEN /\ Emit(<<Tok(PromptMarker, l.seq)>>)
                /\ tx' = Tail(tx)
                /\ UNCHANGED <<rstate, reof>>
           ELSE /\ \E shape \in Shapes(l.data) : Emit(<<Tok(shape, l.seq)>>)
                /\ rstate' = "reply"
                /\ UNCHANGED <<tx, reof>>
    /\ UNCHANGED nbcast
    /\ RemoteQuiet

\* The console has printed its reply and prints the prompt.
RemotePrompt ==
    /\ rstate = "reply"
    /\ Emit(<<Tok(PromptMarker, Head(tx).seq)>>)
    /\ tx' = Tail(tx)
    /\ rstate' = "cli"
    /\ UNCHANGED <<reof, nbcast>>
    /\ RemoteQuiet

InvokeCatalogue(t) ==
    \/ Call(t, "execute_command", "server info \n")
    \/ CallCatalogue(t, "get_online_accounts", 0)
    \/ \E n \in GmLevels : CallCatalogue(t, "account_set_gm_level", n)
    \/ \E n \in Addons : CallCatalogue(t, "account_set_addon", n)

ClientCatalogue(t) ==
    \/ InvokeCatalogue(t)
    \/ open_session(t)
    \/ connect_read_username(t)
    \/ connect_write_username(t)
    \/ connect_read_password(t)
    \/ connect_write_password(t)
    \/ wait_cli_prompt_flush(t)
    \/ wait_cli_prompt_newline(t)
    \/ wait_cli_prompt_read(t)
    \/ execute_command_write(t)
    \/ execute_command_read(t)
    \/ get_online_accounts_call(t)
    \/ get_online_accounts_parse(t)
    \/ account_set_gm_level_check(t)
    \/ account_set_gm_level_parse(t)
    \/ account_set_addon_check(t)
    \/ account_set_addon_parse(t)

RemoteCatalogue ==
    \/ RemoteGreet
    \/ RemoteUser
    \/ RemotePass
    \/ RemoteLineShaped
    \/ RemotePrompt
    \/ RemoteBroadcast
    \/ RemoteClose

NextCatalogue == ClientCatalogue(1) \/ RemoteCatalogue

\* One caller using the catalogue methods of a constructed session.
SpecCatalogue == Init /\ [][NextCatalogue]_vars

\* ------------------------------------------------------- the web login
\* main.py: the login form of the administrative web server.  One client is
\* followed: the secure cookies it holds ('user', 'incorrect'), the last
\* request it made and the page it was answered with.

MaxAttemps == 3

NoCookie == [set |-> FALSE, val |-> <<>>]
Cookie(v) == [set |-> TRUE, val |-> v]

\* str(n) of an int.
RECURSIVE str(_)
str(n) ==
    IF n < 0 THEN <<"-">> \o str(0 - n)
    ELSE IF n < 10 THEN <<DigitChars[n + 1]>>
    ELSE str(n \div 10) \o <<DigitChars[(n % 10) + 1]>>

\* tornado.escape.xhtml_escape: the five characters of markup are replaced
\* by their entities.
xhtml_escape(s) ==
    Flatten([i \in 1..Len(s) |->
        CASE s[i] = "&" -> <<"&", "a", "m", "p", ";">>
          [] s[i] = "<" -> <<"&", "l", "t", ";">>
          [] s[i] = ">" -> <<"&", "g", "t", ";">>
          [] s[i] = DQ -> <<"&", "q", "u", "o", "t", ";">>
          [] s[i] = SQ -> <<"&", "#", "3", "9", ";">>
          [] OTHER -> <<s[i]>>])

\* The login and the passwords of the configurations followed, and what a
\* client types that is neither.
ConfLogin == <<"a", "d", "m", "i", "n">>
ConfPasswords == {<<"s", "e", "c", "r", "e", "t">>, <<"s", "&", "c", "r", "e", "t">>}
Guess == <<"g", "u", "e", "s", "s", "!">>

NoRequest == [method |-> "", path |-> "", username |-> <<>>,
              password |-> <<>>]
GetLogin == [method |-> "GET", path |-> "/login", username |-> <<>>,
             password |-> <<>>]
GetLogout == [method |-> "GET", path |-> "/logout", username |-> <<>>,
              password |-> <<>>]
PostLogin(username, password) ==
    [method |-> "POST", path |-> "/login", username |-> username,
     password |-> password]

\* The handler answers: the cookies the client holds afterwards and the page.
Answer(usercookie, incorrect, req, page) ==
    web' = [web EXCEPT !.user = usercookie, !.incorrect = incorrect,
                       !.req = req, !.page = page]

WebFrame == UNCHANGED <<svars, pin, pout>>

\* The counter cookie, as get_secure_cookie returns it, counts as blocked.
Blocked(incorrect) ==
    /\ incorrect.set
    /\ Truthy(incorrect.val)
    /\ IntOf(incorrect.val) >= web.max_attemps

LoginHandler_get ==
    /\ web.up
    /\ IF Blocked(web.incorrect)
       THEN Answer(NoCookie, web.incorrect, GetLogin, "blocked.html")
       ELSE Answer(web.user, web.incorrect, GetLogin, "login.html")
    /\ WebFrame

\* The else branch of post: one more failed attempt.
post_reject_keep_user(incorrect, req) ==
    Answer(web.user, Cookie(str(incorrect + 1)), req,
           IF incorrect + 1 >= web.max_attemps
           THEN "blocked.html" ELSE "login.html failed")

post_reject(incorrect, req) ==
    IF incorrect + 1 >= web.max_attemps
    THEN Answer(NoCookie, Cookie(str(incorrect + 1)), req, "blocked.html")
    ELSE Answer(web.user, Cookie(str(incorrect + 1)), req,
                "login.html failed")

\* post that compares the credentials before it looks at the counter.
LoginHandler_post_credentials_first(username, password) ==
    /\ web.up
    /\ LET cookie == web.incorrect
           req == PostLogin(username, password)
       IN  IF /\ web.login = xhtml_escape(username)
              /\ web.password = xhtml_escape(password)
           THEN Answer(Cookie(username), NoCookie, req, "redirect /")
           ELSE IF ~cookie.set \/ ~Truthy(cookie.val)
                   \/ IntOf(cookie.val) < 0
           THEN post_reject(0, req)
           ELSE IF IntOf(cookie.val) >= web.max_attemps
           THEN Answer(NoCookie, cookie, req, "blocked.html")
           ELSE post_reject(IntOf(cookie.val), req)
    /\ WebFrame

LoginHandler_post(username, password) ==
    /\ web.up
    /\ LET cookie == web.incorrect
           req == PostLogin(username, password)
           fresh == ~cookie.set \/ ~Truthy(cookie.val)
                        \/ IntOf(cookie.val) < 0
           incorrect == IF fresh THEN 0 ELSE IntOf(cookie.val)
       IN  IF ~fresh /\ IntOf(cookie.val) >= web.max_attemps
           THEN Answer(NoCookie, cookie, req, "blocked.html")
           ELSE IF /\ web.login = xhtml_escape(username)
                   /\ web.password = xhtml_escape(password)
           THEN Answer(Cookie(username), NoCookie, req, "redirect /")
           ELSE post_reject(incorrect, req)
    /\ WebFrame

LogoutHandler_get ==
    /\ web.up
    /\ Answer(NoCookie, web.incorrect, GetLogout, "redirect /")
    /\ WebFrame

\* A cookie reaches the end of the days it was set for (expires_days) and the
\* client stops sending it.  No request is made in such a step.
user_cookie_expires ==
    /\ web.up
    /\ web.user.set
    /\ web' = [web EXCEPT !.user = NoCookie, !.req = NoRequest, !.page = ""]
    /\ WebFrame

incorrect_cookie_expires ==
    /\ web.up
    /\ web.incorrect.set
    /\ web' = [web EXCEPT !.incorrect = NoCookie, !.req = NoRequest,
                           !.page = ""]
    /\ WebFrame

\* What a client may type into the form.
Typed == {ConfLogin, Guess} \cup ConfPasswords

\* The server is started with a configuration load_web_server_conf accepts;
\* the client has no cookie, or presents a counter signed with the cookie
\* secret whose value is below zero (post, line 43).
InitWeb ==
    /\ SessionInit
    /\ pin = NoInput
    /\ pout = NoOutput
    /\ \E password \in ConfPasswords, max_attemps \in 1..MaxAttemps,
          incorrect \in {NoCookie, Cookie(str(0 - 1))} :
          web = [up |-> TRUE, login |-> ConfLogin, password |-> password,
                 max_attemps |-> max_attemps, user |-> NoCookie,
                 incorrect |-> incorrect, req |-> NoRequest, page |-> ""]

NextWeb ==
    \/ LoginHandler_get
    \/ \E username \in Typed, password \in Typed :
           LoginHandler_post(username, password)
    \/ LogoutHandler_get
    \/ user_cookie_expires
    \/ incorrect_cookie_expires

SpecWeb == InitWeb /\ [][NextWeb]_vars

\* ------------------------------------------------- the configuration
\* tools/confLoader.py: load_web_server_conf, applied to the configuration
\* configparser has read.  A key of the section is missing or has a text
\* value (an empty one for "key =").

Missing == [set |-> FALSE, val |-> <<>>]
Value(v) == [set |-> TRUE, val |-> v]

SecretLen == 24
DefaultMaxAttemps == 5
DefaultBlockedDuration == 24

\* The secret generated for an empty cookie_secret: 24 characters drawn at
\* random; two of the draws are followed.
GeneratedSecrets == {[i \in 1..SecretLen |-> c] : c \in {"a", "~"}}

\* The tuple returned, or ValueError, for one drawn secret and one outcome of
\* the comparison of debug with '1'.
conf_values(config, cookie_secret, debug) ==
    LET https_port == config.https_port.val
        login == config.login.val
        password == config.password.val
        max_attemps ==
            IF config.max_attemps.set /\ IntOk(config.max_attemps.val)
            THEN IntOf(config.max_attemps.val) ELSE DefaultMaxAttemps
        blocked_duration ==
            IF config.blocked_duration.set
                   /\ IntOk(config.blocked_duration.val)
            THEN IntOf(config.blocked_duration.val)
            ELSE DefaultBlockedDuration
    IN  IF \/ ~Truthy(https_port) \/ ~Truthy(login) \/ ~Truthy(password)
           \/ ~Truthy(cookie_secret)
           \/ ~IntOk(https_port)
           \/ IntOf(https_port) < 1 \/ IntOf(https_port) > 65535
           \/ Len(login) < 1 \/ Len(password) < 6 \/ Len(cookie_secret) < 6
           \/ blocked_duration < 1 \/ max_attemps < 1
        THEN Raised("ValueError")
        ELSE Returned(<<https_port, login, password, cookie_secret, debug,
                        FALSE, max_attemps, blocked_duration>>)

\* load_web_server_conf without the last test on the values.
load_web_server_conf_unchecked(config) ==
    IF ~config.section THEN {Raised("ValueError")}
    ELSE IF \/ ~config.https_port.set \/ ~config.login.set
            \/ ~config.password.set \/ ~config.cookie_secret.set
    THEN {Raised("ValueError")}
    ELSE {Returned(<<config.https_port.val, config.login.val,
                     config.password.val, config.cookie_secret.val, FALSE,
                     FALSE, DefaultMaxAttemps, DefaultBlockedDuration>>)}

\* The outcomes of load_web_server_conf: `confs['debug'] is '1'` compares
\* identities, so either answer is possible when the value is "1".
load_web_server_conf(config) ==
    IF ~config.section THEN {Raised("ValueError")}
    ELSE IF \/ ~config.https_port.set \/ ~config.login.set
            \/ ~config.password.set \/ ~config.cookie_secret.set
    THEN {Raised("ValueError")}
    ELSE LET secrets == IF Len(config.cookie_secret.val) < 1
                        THEN GeneratedSecrets
                        ELSE {config.cookie_secret.val}
             debugs == IF config.debug.set /\ config.debug.val = <<"1">>
                       THEN BOOLEAN ELSE {FALSE}
         IN  {conf_values(config, cookie_secret, debug) :
                  cookie_secret \in secrets, debug \in debugs}

\* The configurations followed.
Ports == {Missing, Value(<<>>), Value(<<"0">>), Value(<<"1">>),
          Value(<<"6", "5", "5", "3", "5">>), Value(<<"6", "5", "5", "3", "6">>), Value(<<"h", "t", "t", "p", "s">>)}
ConfLogins == {Missing, Value(<<>>), Value(ConfLogin)}
Passwords == {Missing, Value(<<>>), Value(<<"1", "2", "3", "4", "5">>), Value(<<"s", "e", "c", "r", "e", "t">>)}
CookieSecrets == {Missing, Value(<<>>), Value(<<"s", "h", "o", "r", "t">>),
                  Value(<<"c", "o", "o", "k", "i", "e">>)}
Attemps == {Missing, Value(<<"0">>), Value(<<"3">>), Value(<<"m", "a", "n", "y">>)}
Durations == {Missing, Value(<<"-", "1">>), Value(<<"2">>), Value(<<"2", ".", "5">>)}
Debugs == {Missing, Value(<<"1">>)}

NoSection ==
    [section |-> FALSE, https_port |-> Missing, login |-> Missing,
     password |-> Missing, cookie_secret |-> Missing, debug |-> Missing,
     max_attemps |-> Missing, blocked_duration |-> Missing]

Configurations ==
    {NoSection} \cup
    [section : {TRUE}, https_port : Ports, login : ConfLogins,
     password : Passwords, cookie_secret : CookieSecrets, debug : Debugs,
     max_attemps : Attemps, blocked_duration : Durations]

InitConf ==
    /\ SessionInit
    /\ pout = NoOutput
    /\ web = NoWeb
    /\ \E config \in Configurations :
           pin = [fn |-> "load_web_server_conf", config |-> config]

load_web_server_conf_return ==
    /\ pin.fn = "load_web_server_conf"
    /\ ~pout.done
    /\ pout' \in load_web_server_conf(pin.config)
    /\ UNCHANGED <<svars, pin, web>>

NextConf == load_web_server_conf_return

SpecConf == InitConf /\ [][NextConf]_vars

\* ================================================================ claims
\* Caller t's last call was an execute_command that returned normally.
Executed(t) ==
    pc[t] = "idle" /\ meth[t] = "execute_command" /\ err[t] = ""

\* C1: when execute_command returns normally the session is back at the
\* ready prompt: the last thing consumed from the stream is the prompt
\* marker that ends the reply to the command line this call wrote.
C1_ExecuteLeavesPromptReady ==
    \A t \in Threads :
        Executed(t) => lastRead = Tok(PromptMarker, cmdseq[t])

\* C2: the text execute_command returns is the reply to the command line
\* this call wrote and nothing else, whatever the timing of the remote's
\* output.
C2_ReplyIsOwnReply ==
    \A t \in Threads :
        Executed(t) =>
            result[t] = <<Tok("reply", cmdseq[t]), Tok(PromptMarker, cmdseq[t])>>

\* The transport operations of a complete wait_cli_prompt, as they stand at
\* positions i..i+2 of a call's log.
IsFlush(tr, i) ==
    /\ Len(tr) >= i + 2
    /\ tr[i].op = "read_until" /\ tr[i].arg = <<PromptMarker>>
    /\ tr[i].out # "raise"
    /\ tr[i + 1].op = "write" /\ tr[i + 1].arg = Newline
    /\ tr[i + 1].out = "ok"
    /\ tr[i + 2].op = "read_until" /\ tr[i + 2].arg = <<PromptMarker>>
    /\ tr[i + 2].out # "raise"

\* C3: every execute_command performs the whole prompt flush before it
\* writes its command line, and a flush has completed since the previous
\* command line was written.
C3_FlushBeforeCommand ==
    \A t \in Threads :
        /\ pc[t] = "e2" => (flushed /\ Len(trace[t]) = 3 /\ IsFlush(trace[t], 1))
        /\ pc[t] = "e3" =>
              /\ Len(trace[t]) = 4
              /\ IsFlush(trace[t], 1)
              /\ trace[t][4].op = "write" /\ trace[t][4].arg = <<arg[t]>>

\* A second command has been written, after the flush of its own call.
C3_Witness ==
    /\ pc[1] = "e3"
    /\ ncalls >= 2
    /\ cmdseq[1] >= 5
    /\ trace[1][4].out = "ok"

\* C4: the login handshake is strictly ordered: the username line is
\* written only after "Username:" has been observed, the password line only
\* after "Password:" has been observed, the prompt is then synchronised, and
\* when connect returns normally the session is at a ready prompt with
\* nothing unread behind it; no command is written before that.
LoginLog(tr) ==
    /\ Len(tr) >= 1 =>
          tr[1].op = "read_until" /\ tr[1].arg = <<UsernamePrompt>>
    /\ Len(tr) >= 2 =>
          /\ tr[2].op = "write" /\ tr[2].arg = <<user, " \n">>
          /\ tr[2].out = "ok" => tr[1].out = "match"
    /\ Len(tr) >= 3 =>
          tr[3].op = "read_until" /\ tr[3].arg = <<PasswordPrompt>>
    /\ Len(tr) >= 4 =>
          /\ tr[4].op = "write" /\ tr[4].arg = <<pwd, " \n">>
          /\ tr[4].out = "ok" => tr[3].out = "match"

C4_LoginOrdered ==
    /\ meth[1] = "__init__" => LoginLog(trace[1])
    /\ (meth[1] = "__init__" /\ obj = "ready") =>
          /\ Len(trace[1]) = 7
          /\ IsFlush(trace[1], 5)
          /\ lastRead.txt = PromptMarker
          /\ ~Has(cookedq \o net, PromptMarker)
    /\ obj # "ready" => \A i \in 1..Len(tx) : tx[i].data \notin {<<c>> : c \in Commands}

\* C5: wait_cli_prompt is a read-until-prompt bounded by a timeout whose
\* expiry is not an error, then a write of one bare newline, then an
\* unbounded read-until-prompt; the first of these is the only bounded read
\* of the session: the reads of the login prompts and of the command reply
\* have no timeout.
FlushStarts(tr, i) ==
    /\ tr[i].op = "read_until"
    /\ tr[i].arg = <<PromptMarker>>
    /\ \/ i = 1
       \/ tr[i - 1].op = "write" /\ tr[i - 1].arg = <<pwd, " \n">>

C5_FlushShape ==
    \A t \in Threads :
        /\ \A i \in 1..Len(trace[t]) :
              trace[t][i].timeout <=> FlushStarts(trace[t], i)
        /\ pc[t] = "w2" =>
              /\ FlushStarts(trace[t], Len(trace[t]))
              /\ Last(trace[t]).out \in {"match", "nomatch"}
        /\ pc[t] = "w3" =>
              /\ FlushStarts(trace[t], Len(trace[t]) - 1)
              /\ Last(trace[t]).op = "write" /\ Last(trace[t]).arg = Newline
        /\ pc[t] = "e2" => IsFlush(trace[t], 1)
        /\ (pc[t] = "idle" /\ meth[t] = "wait_cli_prompt" /\ err[t] = "") =>
              (Len(trace[t]) = 3 /\ IsFlush(trace[t], 1))

\* The flush read expired on a live stream and the call went on to its
\* newline and blocking read.
C5_Witness ==
    /\ pc[1] = "idle" /\ meth[1] = "wait_cli_prompt" /\ err[1] = ""
    /\ trace[1][1].out = "nomatch"
    /\ ~eof

\* C6: at most one command is in flight per session: no caller writes a
\* command line while another caller's command line has been written and
\* the prompt marker ending its reply has not been consumed.
C6_OneCommandInFlight ==
    \A t1, t2 \in Threads :
        (t1 # t2 /\ pc[t1] = "e3") => pc[t2] # "e3"

\* C7: close() may be called any number of times: once a close() has
\* returned, a further close() writes nothing and raises nothing.
C7_CloseIsRepeatable ==
    \A t \in Threads :
        (closedOnce /\ meth[t] = "close" /\ pc[t] = "idle") => err[t] = ""

\* C8: a reply read that ends without the prompt marker because the stream
\* closed is reported to the caller as a failure, and an execute_command
\* called on a transport that has seen the end of the stream fails without
\* writing a byte.
ReplyReadCutShort(t) ==
    /\ meth[t] = "execute_command"
    /\ Len(trace[t]) = 5
    /\ trace[t][5].out = "nomatch"

C8_FailedReadIsFatal ==
    \A t \in Threads :
        /\ (pc[t] = "idle" /\ ReplyReadCutShort(t)) => err[t] # ""
        /\ (meth[t] = "execute_command" /\ eofAtCall[t]) =>
              /\ \A i \in 1..Len(trace[t]) : trace[t][i].op # "write"
              /\ pc[t] = "idle" => err[t] # ""

\* The second half of C8 alone (it holds: the library raises EOFError on
\* the flush read of every later call).
C8_LaterCallsFailFast ==
    \A t \in Threads :
        (meth[t] = "execute_command" /\ eofAtCall[t]) =>
            /\ \A i \in 1..Len(trace[t]) : trace[t][i].op # "write"
            /\ pc[t] = "idle" => err[t] # ""

\* The remote console keeps reading and answering lines, and the caller
\* keeps running; the remote is under no obligation to close the stream.
Fairness ==
    /\ WF_vars(Client(1))
    /\ WF_vars(RemoteGreet \/ RemoteUser \/ RemotePass \/ RemoteLine)

FairSpec == Spec /\ Fairness

\* C9: connect() cannot block forever: each of its two waits for a login
\* prompt ends, whatever the remote sends or does not send.
C9_LoginWaitsEnd ==
    /\ (pc[1] = "c1") ~> (pc[1] # "c1")
    /\ (pc[1] = "c3") ~> (pc[1] # "c3")

\* C9 as amended: the two login waits are unbounded; each ends only when
\* its prompt has been received or the stream has ended.
C9_LoginWaitsUnbounded ==
    \A t \in Threads :
        \A i \in 1..Len(trace[t]) :
            LET e == trace[t][i]
            IN  (e.op = "read_until"
                 /\ e.arg \in {<<UsernamePrompt>>, <<PasswordPrompt>>}) =>
                    /\ ~e.timeout
                    /\ e.out = "match" \/ eof

\* connect() is blocked in its first wait: the peer sent other text, keeps
\* the stream open, and no outcome of the read exists.
C9_Witness ==
    /\ pc[1] = "c1"
    /\ rstate = "mute"
    /\ net # <<>>
    /\ read_until(UsernamePrompt, FALSE) = {}

\* C10: once close() has returned the session is never connected again.
C10_NeverReopened == closedOnce => ~is_session_open

\* C10 as amended: once close() has returned and the socket is released,
\* every call other than open_session leaves the session closed and writes
\* no byte; only open_session opens a transport again.
C10_OnlyOpenSessionReopens ==
    [][(closedOnce /\ ~is_session_open /\ meth[1] # "open_session") =>
          (~is_session_open' /\ wseq' = wseq /\ tx' = tx)]_vars

\* After close(), an execute_command has failed without writing.
C10_Witness ==
    /\ closedOnce /\ ~is_session_open
    /\ meth[1] = "execute_command" /\ pc[1] = "idle"
    /\ err[1] # ""
    /\ Len(trace[1]) >= 1

\* C11: close() writes the logout line "quit \n" before it releases the
\* transport and reads nothing in between; when it has returned, the log of
\* the call is that one write followed by the release, and the liveness
\* probe reports the session not open.
C11_CloseOrder ==
    \A t \in Threads :
        meth[t] = "close" =>
            /\ pc[t] = "cs1" =>
                   /\ Len(trace[t]) = 1
                   /\ trace[t][1].op = "write"
                   /\ trace[t][1].arg = QuitLine
                   /\ trace[t][1].out = "ok"
            /\ (pc[t] = "idle" /\ err[t] = "") =>
                   /\ Len(trace[t]) = 2
                   /\ trace[t][1].op = "write"
                   /\ trace[t][1].arg = QuitLine
                   /\ trace[t][2].op = "close"
                   /\ ~is_session_open

\* close() has returned normally on a session that was logged in.
C11_Witness ==
    /\ meth[1] = "close" /\ pc[1] = "idle" /\ err[1] = ""
    /\ Len(trace[1]) = 2
    /\ ~is_session_open
    /\ lastRead.txt = PromptMarker

\* C12: open_session is a no-op while the liveness probe reports the
\* session open: that step changes neither the transport nor the stream nor
\* what was written; a new connection is made only by a step taken while the
\* probe reports no live socket.
C12_OpenSessionIdempotent ==
    [][/\ (pc[1] = "os" /\ pc'[1] # "os" /\ is_session_open) =>
              /\ UNCHANGED <<transport, wire, wseq, lastRead>>
              /\ err'[1] = ""
       /\ (rstate' = "greet" /\ wseq' = 0 /\ (rstate # "greet" \/ wseq # 0)) =>
              (pc[1] = "os" /\ ~is_session_open)]_vars

\* open_session has returned on a session that was open and in use.
C12_Witness ==
    /\ meth[1] = "open_session" /\ pc[1] = "idle" /\ err[1] = ""
    /\ is_session_open
    /\ wseq > 0
    /\ lastRead.txt = PromptMarker

\* Caller t has just returned from a second wait_cli_prompt made right after
\* a first one, both without error, on a console that is logged in.
SyncedTwice(t) ==
    /\ pc[t] = "idle" /\ meth[t] = "wait_cli_prompt" /\ err[t] = ""
    /\ snap[t] # NoSnap
    /\ rstate = "cli"

Writes(tr) == {i \in 1..Len(tr) : tr[i].op = "write"}

\* C13: two wait_cli_prompt calls in a row leave the session in the same
\* observable state as one call (probe, end-of-stream flag, read position at
\* a prompt, prompt markers unread or owed), and the second call has written
\* exactly one bare newline and nothing else.
C13_SyncPromptIdempotent ==
    \A t \in Threads :
        SyncedTwice(t) =>
            /\ Obs = snap[t].obs
            /\ \E i \in 1..Len(trace[t]) :
                   /\ Writes(trace[t]) = {i}
                   /\ trace[t][i].arg = Newline

\* What does hold of every wait_cli_prompt that returns: it wrote one bare
\* newline and nothing else.
C13_OneNewlinePerSync ==
    \A t \in Threads :
        (pc[t] = "idle" /\ meth[t] = "wait_cli_prompt" /\ err[t] = "") =>
            \E i \in 1..Len(trace[t]) :
                /\ Writes(trace[t]) = {i}
                /\ trace[t][i].arg = Newline

\* execute_command has returned the text of a reply read through the marker.
TextReturned == pin.fn = "execute_command" /\ pout.done

CommandWritten ==
    pin.fn \in {"ban_account", "account_delete_command"} /\ pout.done

\* C15: the bytes written for a catalogue call are one line: they contain
\* exactly one newline and it is the last byte, whatever the arguments.
C15_OneLinePerCommand ==
    CommandWritten =>
        /\ pout.val[Len(pout.val)] = LF
        /\ Cardinality({i \in 1..Len(pout.val) : pout.val[i] = LF}) = 1

\* A listing method has been applied to a reply with a header of nhead
\* lines and ntail trailing lines before the prompt marker.
Listed(fn, nhead, ntail) ==
    /\ pin.fn = fn /\ pout.done
    /\ pin.nhead = nhead /\ pin.ntail = ntail

\* The structure the listing methods take for granted: three header lines,
\* the rows, one closing line, and the prompt marker as the last piece.
ListedAsPrinted(fn) == Listed(fn, 3, 1)

WellFormed(fields) ==
    IF pin.fn = "get_online_accounts"
    THEN Len(fields) = 6 /\ AllDigits(Strip(fields[1]))
    ELSE Len(fields) = 5 /\ AllDigits(Strip(fields[5]))

DistinctKeys(rows) ==
    \A i, j \in 1..Len(rows) :
        i # j => Strip(rows[i][1]) # Strip(rows[j][1])

\* C16: round trip of the listing methods: a reply made of the header
\* lines, R well-formed rows with distinct keys and the trailing lines gives
\* a mapping of exactly R entries, in row order, each keyed by the first
\* field of its row and holding the row's second field; none for R = 0.
C16_TableRoundTrip ==
    \A fn \in {"get_online_accounts", "account_get_characters"} :
        (/\ ListedAsPrinted(fn)
         /\ \A i \in 1..Len(pin.rows) : WellFormed(pin.rows[i])
         /\ DistinctKeys(pin.rows)) =>
            /\ pout.exc = ""
            /\ Len(pout.val) = Len(pin.rows)
            /\ \A i \in 1..Len(pin.rows) :
                  /\ pout.val[i].key = Strip(pin.rows[i][1])
                  /\ IF fn = "get_online_accounts"
                     THEN pout.val[i].val.username = Strip(pin.rows[i][2])
                     ELSE pout.val[i].val.name = Strip(pin.rows[i][2])

\* Two well-formed rows with distinct keys have been parsed, the second
\* one's key printed with blanks around it.
C16_Witness ==
    /\ ListedAsPrinted("account_get_characters")
    /\ Len(pin.rows) = 2
    /\ pin.rows[2][1] = <<" ", "8", " ">>
    /\ Len(pout.val) = 2
    /\ pout.val[2].key = <<"8">>
    /\ pout.val[2].val.level = 12

AliceAndBob ==
    /\ pout.exc = ""
    /\ Len(pout.val) = 2
    /\ pout.val[1].key = <<"1">> /\ pout.val[1].val.username = <<"a", "l", "i", "c", "e">>
    /\ pout.val[2].key = <<"2">> /\ pout.val[2].val.username = <<"b", "o", "b">>

\* C17: for a reply of 2 header lines, the rows of alice and bob and 2
\* trailing lines, get_online_accounts returns the 2-entry mapping keyed
\* "1" and "2" with usernames alice and bob.
C17_TwoHeaderLines ==
    (Listed("get_online_accounts", 2, 2) /\ pin.rows = <<RowAlice, RowBob>>)
        => AliceAndBob

\* C17 as the code has it: the mapping of alice and bob is returned for a
\* reply of 3 header lines, the two rows, and 1 trailing line followed by
\* the prompt marker.
C17_ThreeHeaderLines ==
    (ListedAsPrinted("get_online_accounts")
     /\ pin.rows = <<RowAlice, RowBob>>) => AliceAndBob

\* The rows of alice and bob have been parsed out of such a reply, sent
\* with CR LF line ends.
C17_Witness ==
    /\ ListedAsPrinted("get_online_accounts")
    /\ pin.rows = <<RowAlice, RowBob>>
    /\ pin.eol = <<CR, LF>>
    /\ AliceAndBob
    /\ pout.val[2].val.ip = <<"5", ".", "6", ".", "7", ".", "8">>

Arity == IF pin.fn = "get_online_accounts" THEN 6 ELSE 5

\* C18: a listing reply in which at least one row has fewer fields than the
\* method unpacks makes the method raise; no mapping, partial or not, is
\* returned and the short row is not skipped.
C18_ShortRowRaises ==
    \A fn \in {"get_online_accounts", "account_get_characters"} :
        (/\ ListedAsPrinted(fn)
         /\ \E i \in 1..Len(pin.rows) : Len(pin.rows[i]) < Arity) =>
            /\ pout.exc = "ValueError"
            /\ pout.val = <<>>

\* A sound row followed by a short one has made get_online_accounts raise.
C18_Witness ==
    /\ ListedAsPrinted("get_online_accounts")
    /\ Len(pin.rows) = 2
    /\ pin.rows[1] = RowAlice
    /\ Len(pin.rows[2]) = 2
    /\ pout.exc = "ValueError"

WithoutCR(s) == SelectSeq(s, LAMBDA c : c # CR)

\* C19: account_delete looks for the exact phrase "Account deleted:"
\* anywhere in the reply (CR characters apart), case-sensitively: it returns
\* True for every reply made with that phrase, whatever surrounds it, and
\* False for every reply made with another phrase (another case, the phrase
\* cut short, another message, nothing).
C19_DeleteSentinel ==
    (pin.fn = "account_delete" /\ pout.done) =>
        pout.val = (WithoutCR(pin.mid) = DeletedPhrase)

\* The phrase has been found in the middle of a reply.
C19_Witness ==
    /\ pin.fn = "account_delete" /\ pout.done
    /\ pin.pre = <<CR, LF>>
    /\ pin.mid = DeletedPhrase
    /\ pin.post = <<" ", "b", "o", "b">>
    /\ pout.val = TRUE

\* C20: account_create returns False for every reply that does not report a
\* created account: an empty reply, an unrelated text, the notice that the
\* account already exists.
C20_CreateFalseUnlessCreated ==
    (pin.fn = "account_create" /\ pout.done /\ pin.mid # CreatedPhrase) =>
        pout.val = FALSE

\* What account_create does return: False exactly for the replies holding
\* the already-exists notice.
C20_CreateFalseOnlyOnExists ==
    (pin.fn = "account_create" /\ pout.done) =>
        pout.val = (pin.mid # ExistsPhrase)

\* A detail parser has been applied to a reply whose first line lacks the
\* separator the parser cuts it at.
SeparatorAbsent ==
    /\ pin.fn \in {"server_show_player_limits", "list_items"}
    /\ pout.done
    /\ ~Contains(pin.line,
                 IF pin.fn = "list_items" THEN InventorySeparator
                 ELSE LimitSeparator)

\* C21: a detail parser raises when the expected separator is absent from
\* the first line of the reply: server_show_player_limits without
\* ", min. security level " and list_items without " ( inventory " raise
\* and return no record.
C21_MissingSeparatorRaises ==
    SeparatorAbsent => pout.exc = "ValueError"

\* C21 as the code has it: the same, except that list_items answers a reply
\* holding "Invalid item id" with the empty list before it looks for any
\* separator.
C21_MissingSeparatorRaisesUnlessInvalidItem ==
    SeparatorAbsent =>
        IF pin.fn = "list_items" /\ Contains(pin.line, InvalidItemPhrase)
        THEN pout.exc = "" /\ pout.val = <<>>
        ELSE pout.exc = "ValueError" /\ pout.val = <<>>

\* server_show_player_limits has raised on a first line without separator
\* although the second line holds one.
C21_Witness ==
    /\ SeparatorAbsent
    /\ pin.fn = "server_show_player_limits"
    /\ pin.line = <<"C", "o", "m", "m", "a", "n", "d", " ", "n", "o", "t", " ", "f", "o", "u", "n", "d">>
    /\ Contains(pin.more, LimitSeparator)
    /\ pout.exc = "ValueError"

RowKey(i) == Strip(pin.rows[i][1])

\* The rows that bring a key not seen in an earlier row.
FirstRows == {i \in 1..Len(pin.rows) : \A j \in 1..(i - 1) : RowKey(j) # RowKey(i)}

\* The last row that carries the key of row i.
LastRowOf(i) ==
    CHOOSE j \in 1..Len(pin.rows) :
        /\ RowKey(j) = RowKey(i)
        /\ \A k \in (j + 1)..Len(pin.rows) : RowKey(k) # RowKey(i)

\* get_online_accounts has parsed well-formed rows of which two carry the
\* same first field.
DuplicateKeysListed ==
    /\ ListedAsPrinted("get_online_accounts")
    /\ \A i \in 1..Len(pin.rows) : WellFormed(pin.rows[i])
    /\ ~DistinctKeys(pin.rows)

\* C24: when two rows of a listing carry the same first field no error is
\* raised: the mapping has one entry per distinct key, fewer than the rows,
\* each key stands where its first row stood and holds the record of its
\* last row.
C24_LaterRowReplaces ==
    DuplicateKeysListed =>
        /\ pout.exc = ""
        /\ Len(pout.val) = Cardinality(FirstRows)
        /\ Len(pout.val) < Len(pin.rows)
        /\ \A i \in FirstRows :
              LET at == Cardinality({j \in FirstRows : j <= i})
              IN  /\ pout.val[at].key = RowKey(i)
                  /\ pout.val[at].val.username
                         = Strip(pin.rows[LastRowOf(i)][2])

\* Rows keyed 1, 2, 1 have given the keys 1, 2 with the third row's record
\* under key 1.
C24_Witness ==
    /\ DuplicateKeysListed
    /\ Len(pin.rows) = 3
    /\ pin.rows[1] = RowAlice /\ pin.rows[2] = RowBob
    /\ Len(pout.val) = 2
    /\ pout.val[1].key = <<"1">>
    /\ pout.val[1].val.username = <<"a", "l">>
    /\ pout.val[2].key = <<"2">>

\* C26: character_deleted_list and character_search_deleted_list return
\* the empty list only for a reply holding "No characters found."; for a
\* reply that lists deleted characters they return the text of the reply.
C26_EmptyOnlyOnSentinel ==
    (/\ pin.fn \in {"character_deleted_list",
                    "character_search_deleted_list"}
     /\ pout.done) =>
        IF pin.mid = NoCharactersPhrase
        THEN pout.val = <<>>
        ELSE pout.val
                 = StrResult(pin.pre \o pin.mid \o pin.post \o MarkerBytes)

\* What the two methods do return: the empty list, whatever the reply.
C26_AlwaysEmpty ==
    (/\ pin.fn \in {"character_deleted_list",
                    "character_search_deleted_list"}
     /\ pout.done) => pout.val = <<>>

\* The writes of its command line in the log of caller t's call.
CommandWrites(t) ==
    {i \in 1..Len(trace[t]) :
        trace[t][i].op = "write" /\ trace[t][i].arg = <<arg[t]>>}

\* C23: nothing is retried: an execute_command writes its command line at
\* most once, whether it returns or fails, and while it runs no step opens,
\* closes or replaces the transport.
C23_NothingRetried ==
    [][/\ meth'[1] = "execute_command" =>
              /\ Cardinality(CommandWrites(1)') <= 1
              /\ Cardinality(Writes(trace'[1])) <= 2
       /\ (meth[1] = "execute_command" /\ pc[1] # "idle") =>
              /\ UNCHANGED <<tn_client, sock>>
              /\ rstate' = "greet" => rstate = "greet"]_vars

\* An execute_command has failed in its reply read after writing its
\* command line once.
C23_Witness ==
    /\ meth[1] = "execute_command" /\ pc[1] = "idle"
    /\ err[1] = "EOFError"
    /\ Cardinality(CommandWrites(1)) = 1
    /\ trace[1][Len(trace[1])].op = "read_until"
    /\ trace[1][Len(trace[1]) - 1].arg = <<arg[1]>>

\* Caller t's get_online_accounts has raised on a reply of the wrong shape.
ParseFailed(t) ==
    /\ pc[t] = "idle" /\ meth[t] = "get_online_accounts"
    /\ err[t] = "ValueError"

\* C22: a parse error is recoverable: when get_online_accounts raises on
\* the shape of the reply, the reply and its prompt marker have been
\* consumed and the session is at the ready prompt: the stream has not
\* ended, the last thing read is the marker ending the reply to this call's
\* command, and no reply or marker is left unread or owed.
C22_ParseErrorRecoverable ==
    \A t \in Threads :
        ParseFailed(t) =>
            /\ ~eof
            /\ lastRead = Tok(PromptMarker, cmdseq[t])
            /\ \A i \in 1..Len(cookedq \o net) :
                  (cookedq \o net)[i].of # cmdseq[t]

\* What does hold: the parse itself reads and writes nothing; it comes
\* after the reply read of execute_command and leaves the session as that
\* read left it.
C22_ParseDoesNoIO ==
    [][(pc[1] = "g2" /\ pc'[1] # "g2") =>
           UNCHANGED <<transport, wire, wseq, lastRead, trace>>]_vars

OutOfRange(t) ==
    \/ meth[t] = "account_set_gm_level" /\ (param[t] < 0 \/ param[t] > 3)
    \/ meth[t] = "account_set_addon" /\ param[t] < 0

\* C25: out-of-range arguments are rejected without any I/O:
\* account_set_addon with addon < 0 and account_set_gm_level with
\* gm_level < 0 or > 3 return False; the call's log stays empty (no flush
\* read, no newline, no command line) and its steps leave the transport and
\* the stream as they were.
C25_RejectedWithoutIO ==
    [][/\ (OutOfRange(1)' /\ pc'[1] = "idle") =>
              /\ ret'[1] = Returned(FALSE)
              /\ trace'[1] = <<>>
       /\ (OutOfRange(1) /\ pc[1] # "idle" /\ pc'[1] # pc[1]) =>
              UNCHANGED <<transport, wire, wseq, lastRead>>]_vars

\* account_set_gm_level(4) has returned False on a session in use.
C25_Witness ==
    /\ meth[1] = "account_set_gm_level" /\ param[1] = 4
    /\ pc[1] = "idle"
    /\ ret[1] = Returned(FALSE)
    /\ trace[1] = <<>>
    /\ is_session_open /\ wseq > 2

\* What does hold of a parse error raised while the stream is open: the
\* reply and its marker have been consumed, none of it is left unread.
C22_RecoverableWhileStreamOpen ==
    \A t \in Threads :
        (ParseFailed(t) /\ ~eof) =>
            /\ lastRead = Tok(PromptMarker, cmdseq[t])
            /\ \A i \in 1..Len(cookedq \o net) :
                  (cookedq \o net)[i].of # cmdseq[t]


\* ------------------------------------------------------------ web login
\* A step in which the client posts the login form.
PostStep == web.up /\ web'.req.method = "POST"

\* The credentials of the request are the configured login and password.
CorrectCredentials(req) ==
    req.username = web.login /\ req.password = web.password

\* C27: once the failed-attempt counter is at or above max_attemps, every
\* POST to /login, also one with the correct login and password, renders the
\* blocked page, sets no 'user' cookie and leaves the counter as it was.
C27_BlockedPostStaysBlocked ==
    [][(PostStep /\ Blocked(web.incorrect)) =>
           /\ web'.page = "blocked.html"
           /\ ~web'.user.set
           /\ web'.incorrect = web.incorrect]_vars

\* A blocked client has posted the correct login and password, which the
\* server would have accepted from a client that is not blocked.
C27_Witness ==
    /\ web.up
    /\ web.req.method = "POST"
    /\ CorrectCredentials(web.req)
    /\ xhtml_escape(web.password) = web.password
    /\ Blocked(web.incorrect)
    /\ web.page = "blocked.html"

\* The counter a post starts from: absent or negative counts as 0.
Counter(incorrect) ==
    IF ~incorrect.set \/ ~Truthy(incorrect.val) \/ IntOf(incorrect.val) < 0
    THEN 0 ELSE IntOf(incorrect.val)

\* What a post with credentials that are not accepted does.
FailedAttempt ==
    /\ web'.incorrect = Cookie(str(Counter(web.incorrect) + 1))
    /\ web'.page = "blocked.html"
           <=> Counter(web.incorrect) + 1 >= web.max_attemps
    /\ web'.page # "blocked.html" => web'.user = web.user

\* What a post with accepted credentials does.
Login ==
    /\ web'.user = Cookie(web'.req.username)
    /\ ~web'.incorrect.set
    /\ web'.page = "redirect /"

\* C28: for a client that is not blocked, a POST with wrong credentials
\* raises the counter by exactly 1 (from 0 when it was absent or negative)
\* and blocks exactly when the counter reaches max_attemps; a POST with the
\* correct credentials sets the 'user' cookie and clears the counter.
C28_CounterSteps ==
    [][(PostStep /\ ~Blocked(web.incorrect)) =>
           IF CorrectCredentials(web'.req) THEN Login ELSE FailedAttempt]_vars

\* C28, with the comparison the code makes: the credentials are accepted when
\* their escaped form equals the configured login and password.
C28_CounterStepsEscaped ==
    [][(PostStep /\ ~Blocked(web.incorrect)) =>
           IF /\ xhtml_escape(web'.req.username) = web.login
              /\ xhtml_escape(web'.req.password) = web.password
           THEN Login ELSE FailedAttempt]_vars

\* C29: the client never holds a 'user' cookie together with a counter at or
\* above max_attemps.
C29_BlockedNeverAuthenticated ==
    web.up => ~(web.user.set /\ Blocked(web.incorrect))

\* The failed post that brought the counter to max_attemps has been answered.
C29_Witness ==
    /\ web.up
    /\ web.req.method = "POST"
    /\ ~CorrectCredentials(web.req)
    /\ web.incorrect.set
    /\ IntOf(web.incorrect.val) = web.max_attemps
    /\ web.max_attemps > 1
    /\ ~web.user.set

\* -------------------------------------------------------- configuration
Loaded == pin.fn = "load_web_server_conf" /\ pout.done

\* int() accepts the text of the key and the value is below 1 .
BelowOne(key) == key.set /\ IntOk(key.val) /\ IntOf(key.val) < 1

\* The key is present and int() does not accept its text.
NonInteger(key) == key.set /\ ~IntOk(key.val)

\* The configurations the claim lists as raising.
Rejected(config) ==
    \/ ~config.section
    \/ ~config.https_port.set \/ ~config.login.set
    \/ ~config.password.set \/ ~config.cookie_secret.set
    \/ /\ IntOk(config.https_port.val)
       /\ IntOf(config.https_port.val) \notin 1..65535
    \/ Len(config.password.val) < 6
    \/ BelowOne(config.max_attemps)
    \/ BelowOne(config.blocked_duration)

\* The configurations that have every reason to be loaded: the four keys are
\* there, the port is an integer in 1..65535, login, password and secret are
\* long enough (an empty secret is replaced by a generated one), and neither
\* limit is an integer below 1.
Acceptable(config) ==
    /\ config.section
    /\ config.https_port.set /\ config.login.set
    /\ config.password.set /\ config.cookie_secret.set
    /\ IntOk(config.https_port.val)
    /\ IntOf(config.https_port.val) \in 1..65535
    /\ Len(config.login.val) >= 1
    /\ Len(config.password.val) >= 6
    /\ Len(config.cookie_secret.val) \notin 1..5
    /\ ~BelowOne(config.max_attemps)
    /\ ~BelowOne(config.blocked_duration)

\* C30: load_web_server_conf raises ValueError, and returns nothing, when the
\* section or one of https_port, login, password, cookie_secret is missing,
\* when the port is outside 1..65535, when the password has fewer than 6
\* characters, or when max_attemps or blocked_duration is below 1; a tuple of
\* eight values is returned exactly for the configurations that are
\* acceptable, and a max_attemps or blocked_duration that is no integer is
\* replaced in it by 5 or 24 and is by itself no reason to raise.
C30_ValueErrorUnlessValid ==
    Loaded =>
        LET config == pin.config IN
        /\ Rejected(config) => pout.exc = "ValueError" /\ pout.val = <<>>
        /\ pout.exc \in {"", "ValueError"}
        /\ pout.exc = "" <=> Acceptable(config)
        /\ pout.exc = "" =>
               /\ ~Rejected(config)
               /\ Len(pout.val) = 8
               /\ pout.val[7] >= 1 /\ pout.val[8] >= 1
               /\ NonInteger(config.max_attemps) => pout.val[7] = 5
               /\ NonInteger(config.blocked_duration) => pout.val[8] = 24

\* A configuration whose max_attemps and blocked_duration are no integers has
\* been loaded: the tuple carries 5 and 24.
C30_Witness ==
    /\ Loaded
    /\ NonInteger(pin.config.max_attemps)
    /\ NonInteger(pin.config.blocked_duration)
    /\ pout.exc = ""
    /\ pout.val[7] = 5
    /\ pout.val[8] = 24
====
